---- MODULE Spec2Model ----
(***************************************************************************)
(* Model of the replicache-client database engine: the commit graph        *)
(* (db/commit.go), the transaction layer (db/transaction.go), the head     *)
(* (db/db.go), the two-phase sync (db/sync.go, db/pull.go) and the         *)
(* connection's transaction table (repm/connection.go).                    *)
(*                                                                         *)
(* A commit is modelled by its content; its hash is the content itself,    *)
(* so a reference to a commit is the commit record and the parent chain    *)
(* is nested in the record (content addressing).  The noms store is the    *)
(* set of commits that have been written.                                  *)
(***************************************************************************)
EXTENDS Integers, Sequences, FiniteSets, TLC

\* ---------------------------------------------------------------- bounds
MaxTx == 2
MaxStore == 4

\* ------------------------------------------------------------ input sets
Keys == {"a"}
Vals == {1}
\* The name and args of an openTransaction request ("" for an absent field).
TxParams == {<<"", "">>, <<"f", "[]">>}
StateIDs == {"", "s1"}
LastMutationIDs == {0, 1}

\* types.Value arguments of a transaction; ArgsNil is the Go zero value.
ArgsNil == "nil"
ArgsNull == "null"

CommitTypeSnapshot == "CommitTypeSnapshot"
CommitTypeLocal == "CommitTypeLocal"

\* ------------------------------------------------------------- kv.Map
EmptyMap == [k \in {} |-> 0]

MapSet(m, k, v) == [x \in (DOMAIN m) \cup {k} |-> IF x = k THEN v ELSE m[x]]

MapRemove(m, k) == [x \in (DOMAIN m) \ {k} |-> m[x]]

\* 4-bit hash of one entry of the map.
EntryHash(k, v) == IF k = "a" THEN v ELSE 4 * v

RECURSIVE Xor(_, _)
Xor(x, y) ==
    IF x = 0 THEN y
    ELSE IF y = 0 THEN x
    ELSE ((x + y) % 2) + 2 * Xor(x \div 2, y \div 2)

RECURSIVE ChecksumOver(_, _)
ChecksumOver(m, ks) ==
    IF ks = {} THEN 0
    ELSE LET k == CHOOSE x \in ks : TRUE
         IN  Xor(EntryHash(k, m[k]), ChecksumOver(m, ks \ {k}))

Checksum(m) == ChecksumOver(m, DOMAIN m)

\* ------------------------------------------------------------- commits
ZeroLocal ==
    [mutationID |-> 0, date |-> 0, name |-> "", args |-> ArgsNil, original |-> <<>>]

ZeroSnapshot == [lastMutationID |-> 0, serverStateID |-> ""]

Type(c) ==
    IF c.meta.local.name # "" THEN CommitTypeLocal ELSE CommitTypeSnapshot

MutationID(c) ==
    IF Type(c) = CommitTypeLocal
    THEN c.meta.local.mutationID
    ELSE c.meta.snapshot.lastMutationID

NextMutationID(c) == MutationID(c) + 1

\* BasisRef fails (chk.Fail panics) unless the commit has exactly one parent.
HasBasis(c) == Len(c.parents) = 1

Basis(c) == c.parents[1]

makeSnapshot(basis, serverStateID, data, checksum, lastMutationID) ==
    [parents |-> <<basis>>,
     meta    |-> [local |-> ZeroLocal,
                  snapshot |-> [lastMutationID |-> lastMutationID,
                                serverStateID |-> serverStateID]],
     value   |-> [data |-> data, checksum |-> checksum]]

makeGenesis(serverStateID, data, checksum, lastMutationID) ==
    [parents |-> <<>>,
     meta    |-> [local |-> ZeroLocal,
                  snapshot |-> [lastMutationID |-> lastMutationID,
                                serverStateID |-> serverStateID]],
     value   |-> [data |-> data, checksum |-> checksum]]

makeLocal(basis, d, mutationID, f, args, newData, checksum) ==
    [parents |-> <<basis>>,
     meta    |-> [local |-> [mutationID |-> mutationID, date |-> d, name |-> f,
                             args |-> args, original |-> <<>>],
                  snapshot |-> ZeroSnapshot],
     value   |-> [data |-> newData, checksum |-> checksum]]

makeReplayedLocal(basis, d, mutationID, f, args, newData, checksum, original) ==
    [parents |-> <<basis>>,
     meta    |-> [local |-> [mutationID |-> mutationID, date |-> d, name |-> f,
                             args |-> args, original |-> <<original>>],
                  snapshot |-> ZeroSnapshot],
     value   |-> [data |-> newData, checksum |-> checksum]]

Genesis == makeGenesis("", EmptyMap, Checksum(EmptyMap), 0)

RECURSIVE baseSnapshot(_)
baseSnapshot(c) ==
    IF Type(c) = CommitTypeSnapshot THEN c ELSE baseSnapshot(Basis(c))

\* Earliest first, head last.
RECURSIVE pendingCommits(_)
pendingCommits(head) ==
    IF Type(head) = CommitTypeSnapshot
    THEN <<>>
    ELSE Append(pendingCommits(Basis(head)), head)

\* The commits on the parent chain of c, c excluded.
RECURSIVE Ancestors(_)
Ancestors(c) ==
    IF Len(c.parents) = 0 THEN {} ELSE {Basis(c)} \cup Ancestors(Basis(c))

\* datas.Database.FastForward: accepted when the new head is the current
\* head or descends from it, ErrMergeNeeded otherwise.
FastForward(cur, new) == new = cur \/ cur \in Ancestors(new)

ValidateReplayParams(original, name, args, mutationID) ==
    IF Type(original) # CommitTypeLocal THEN "only local mutations can be replayed"
    ELSE IF name # original.meta.local.name THEN "invalid replay: Names do not match"
    ELSE IF args # original.meta.local.args THEN "invalid replay: Args do not match"
    ELSE IF mutationID # original.meta.local.mutationID
         THEN "invalid replay: MutationID values do not match"
    ELSE ""

\* jsnoms.FromJSON on the args of openTransaction: "" is not a JSON text.
ArgsFromJSON(jsonArgs) == IF jsonArgs = "" THEN <<>> ELSE <<jsonArgs>>


\* -------------------------------------------------------- kv.ApplyPatch
OpAdd(k, v) == [op |-> "add", path |-> <<"/", k>>, value |-> v]
OpRemove(k) == [op |-> "remove", path |-> <<"/", k>>, value |-> 0]

Patches == { <<>>, <<OpAdd("a", 1)>>, <<OpRemove("a")>> }

\* Applies the operations from index i on; <<>> when an operation fails.
RECURSIVE ApplyPatchFrom(_, _, _)
ApplyPatchFrom(m, patch, i) ==
    IF i > Len(patch) THEN <<m>>
    ELSE LET o == patch[i]
         IN  IF o.op \in {"add", "replace"} /\ Len(o.path) = 2
             THEN ApplyPatchFrom(MapSet(m, o.path[2], o.value), patch, i + 1)
             ELSE IF o.op = "remove" /\ Len(o.path) = 1
             THEN IF i = 1 THEN ApplyPatchFrom(EmptyMap, patch, i + 1) ELSE <<>>
             ELSE IF o.op = "remove" /\ Len(o.path) = 2 /\ o.path[2] \in DOMAIN m
             THEN ApplyPatchFrom(MapRemove(m, o.path[2]), patch, i + 1)
             ELSE <<>>

ApplyPatch(m, patch) == ApplyPatchFrom(m, patch, 1)

ChecksumVals == 0 .. 1

\* ---------------------------------------------------------------- state
VARIABLES
    store,               \* commits written to the noms store
    head,                \* DB.head
    dsHead,              \* head of the persisted master dataset
    txs,                 \* connection.transactions, by transaction id
    transactionCounter,  \* connection.transactionCounter
    last,                \* the request that just returned, and how
    dbTxs,               \* the Transactions a direct user of DB holds, by handle
    syncing,             \* the locals of the BeginSync call in progress
    mu,                  \* DB.mu: "free", or the call that holds it
    pulling,             \* the pulling flag of a legacy connection
    pulls,               \* the position of each legacy pull request
    threads              \* the request each thread of the host is in

vars == <<store, head, dsHead, txs, transactionCounter, last, dbTxs, syncing,
          mu, pulling, pulls, threads>>

\* The state of a direct user of the db package, and that of a connection.
dbVars == <<dbTxs, syncing>>
connVars == <<txs, transactionCounter>>

\* The legacy pull requests a host has in flight at once.
MaxPulls == 2
PullRequests == 1 .. MaxPulls

\* A pull request that is not being served. pc: where dispatchPull is;
\* genesis: the base snapshot DB.Pull read.
IdlePull == [pc |-> "idle", genesis |-> <<>>]

\* The threads of the host that send requests to one connection.
MaxThreads == 2
Threads == 1 .. MaxThreads

\* A thread that is in no request. pc: where its request is; op: the request;
\* id: the transaction id of the request; held: the locks it holds; read:
\* the head DB.Head returned to it; arg: the request's parameters, or the
\* commit it is about to make the head.
IdleThread ==
    [pc |-> "idle", op |-> "none", id |-> 0, held |-> {}, read |-> <<>>,
     arg |-> <<>>]

\* A hash that names no commit of the store.
Dangling == makeSnapshot(Genesis, "dangling", EmptyMap, Checksum(EmptyMap), 0)

\* The hashes a host can pass: the empty hash, or the hash of a commit.
Hashes == {<<>>} \cup {<<c>> : c \in store \cup {Dangling}}

\* The rebaseOpts of an openTransaction request: absent, or a basis and an
\* original.
RebaseOpts ==
    {<<<<>>, <<>>>>} \cup {<<b, o>> : b \in Hashes \ {<<>>}, o \in Hashes}

\* The values time.DateTime() can return.
Dates == {1, 2}

ReadCommitOK(h) == h # <<>> /\ h[1] \in store

\* op: the request; ok: it returned no error; push: whether BeginSync
\* pushed, and whether the push returned status 200.
\* panicked: the request panicked and Dispatch recovered.
NoResult == [op |-> "none", ok |-> TRUE, push |-> "none", panicked |-> FALSE]

Init ==
    /\ store = {Genesis}
    /\ head = Genesis
    /\ dsHead = Genesis
    /\ txs = [i \in {} |-> 0]
    /\ transactionCounter = 1
    /\ last = NoResult
    /\ dbTxs = [i \in {} |-> 0]
    /\ syncing = <<>>
    /\ mu = "free"
    /\ pulling = 0
    /\ pulls = [r \in PullRequests |-> IdlePull]
    /\ threads = [t \in Threads |-> IdleThread]

\* ---------------------------------------------------------- transactions
\* A NewTransactionWithArgs that starts from the master head whatever the
\* basis it is given.
NewTransactionFromHead(name, args, basis, original) ==
    [basis |-> head, me |-> head.value.data, wrote |-> FALSE, closed |-> FALSE,
     name |-> name, args |-> args, original |-> original]

NewTransactionWithArgs(name, args, basis, original) ==
    LET b == IF basis # <<>> THEN basis[1] ELSE head
    IN  [basis |-> b, me |-> b.value.data, wrote |-> FALSE, closed |-> FALSE,
         name |-> name, args |-> args, original |-> original]

NewTransaction == NewTransactionWithArgs("", ArgsNull, <<>>, <<>>)

IsReplay(tx) == tx.original # <<>>

\* connection.newTransaction: the error ("" for none) of opening with these
\* parameters.
newTransactionErr(name, jsonArgs, basis, original) ==
    IF name = "" /\ jsonArgs = "" THEN ""
    ELSE IF ArgsFromJSON(jsonArgs) = <<>> THEN "invalid args"
    ELSE IF basis = <<>> THEN ""
    ELSE IF ~ReadCommitOK(basis) THEN "not found"
    ELSE IF ~ReadCommitOK(original) THEN "not found"
    ELSE ValidateReplayParams(original[1], name, ArgsFromJSON(jsonArgs)[1],
                              NextMutationID(basis[1]))

\* A counter that is not advanced.
sameTransactionID(counter) == counter

\* connection.newTransaction: the counter after an id was taken from it.
nextTransactionID(counter) == counter + 1

OpenTransaction(name, jsonArgs, basis, original) ==
    /\ transactionCounter <= MaxTx
    /\ Cardinality(store) < MaxStore
    /\ transactionCounter' = nextTransactionID(transactionCounter)
    /\ LET txID == transactionCounter
           err == newTransactionErr(name, jsonArgs, basis, original)
           tx == IF name = "" /\ jsonArgs = ""
                 THEN NewTransaction
                 ELSE IF basis = <<>>
                 THEN NewTransactionWithArgs(name, ArgsFromJSON(jsonArgs)[1], <<>>, <<>>)
                 ELSE NewTransactionWithArgs(name, ArgsFromJSON(jsonArgs)[1], basis, original)
       IN  txs' = IF err = ""
                  THEN [i \in (DOMAIN txs) \cup {txID} |->
                           IF i = txID THEN tx ELSE txs[i]]
                  ELSE txs
    /\ last' = IF newTransactionErr(name, jsonArgs, basis, original) = ""
               THEN NoResult
               ELSE [NoResult EXCEPT !.op = "openTransaction", !.ok = FALSE]
    /\ UNCHANGED <<store, head, dsHead, dbTxs, syncing, mu, pulling, pulls>>
    /\ UNCHANGED threads

\* The transaction ids a request can carry: 0 is a missing id.
TxIDs == 0 .. MaxTx

\* connection.findTransaction: the error ("" for none) of looking up id.
findTransaction(id) ==
    IF id = 0 THEN "Missing transaction ID"
    ELSE IF id \in DOMAIN txs THEN ""
    ELSE "Invalid transaction ID"

\* A put request without a value.
NoValue == 0

\* A dispatchPut that does not look at the value.
findTransactionOnly(id, v) == findTransaction(id)

\* dispatchPut: the error ("" for none) of the request.
dispatchPutErr(id, v) ==
    IF v = NoValue THEN "value field is required" ELSE findTransaction(id)

\* dispatchPut: the value check, findTransaction, then Transaction.Put.
Put(id, k, v) ==
    /\ Cardinality(store) < MaxStore
    /\ txs' = IF dispatchPutErr(id, v) = ""
              THEN [txs EXCEPT ![id].me = MapSet(@, k, v), ![id].wrote = TRUE]
              ELSE txs
    /\ last' = [NoResult EXCEPT !.ok = (dispatchPutErr(id, v) = "")]
    /\ UNCHANGED <<store, head, dsHead, transactionCounter, dbTxs, syncing, mu, pulling, pulls>>
    /\ UNCHANGED threads

\* A removeTransaction that leaves the table as it is.
keepTransaction(id) == txs

\* connection.removeTransaction
removeTransaction(id) == [i \in (DOMAIN txs) \ {id} |-> txs[i]]

\* A setHead that sets the head without the fast-forward check.
setHeadUnchecked(cur, newHead) == TRUE

\* DB.setHead: fast-forwards the master dataset to newHead; TRUE when it did.
setHead(cur, newHead) == FastForward(cur, newHead)

\* Transaction.Commit once a write is known to have occurred: the error, the
\* returned ref, the commits written and the new head (<<>> when the head is
\* not set).
CommitWrite(tx, d, cur) ==
    LET cksum  == Checksum(tx.me)
        mid    == NextMutationID(tx.basis)
        verr   == ValidateReplayParams(tx.original[1], tx.name, tx.args, mid)
        replayed == makeReplayedLocal(tx.basis, d, mid, tx.name, tx.args, tx.me,
                                      cksum, tx.original[1])
        commit == makeLocal(tx.basis, d, mid, tx.name, tx.args, tx.me, cksum)
    IN  IF IsReplay(tx)
        THEN IF verr # ""
             THEN [err |-> verr, ref |-> <<>>, written |-> {}, newHead |-> <<>>]
             ELSE [err |-> "", ref |-> <<replayed>>, written |-> {replayed},
                   newHead |-> <<>>]
        ELSE IF setHead(cur, commit)
        THEN [err |-> "", ref |-> <<commit>>, written |-> {commit},
              newHead |-> <<commit>>]
        ELSE [err |-> "CommitError", ref |-> <<>>, written |-> {commit},
              newHead |-> <<>>]

\* A Commit that writes a commit whether or not the transaction wrote.
CommitWritingAlways(tx, d, cur) == CommitWrite(tx, d, cur)

\* A Commit that writes the commit and returns its ref but never sets the
\* head.
CommitLeavingHead(tx, d, cur) ==
    LET r == CommitWrite(tx, d, cur)
    IN  IF ~tx.wrote
        THEN [err |-> "", ref |-> <<>>, written |-> {}, newHead |-> <<>>]
        ELSE [r EXCEPT !.newHead = <<>>]

\* A Commit that sets the head to the commit it wrote, replayed or not.
CommitMovingHead(tx, d, cur) ==
    LET r == CommitWrite(tx, d, cur)
    IN  IF ~tx.wrote
        THEN [err |-> "", ref |-> <<>>, written |-> {}, newHead |-> <<>>]
        ELSE [r EXCEPT !.newHead = r.ref]

\* Transaction.Commit on an open transaction: a no-op returning a zero ref
\* when no write occurred.
Commit(tx, d, cur) ==
    IF ~tx.wrote
    THEN [err |-> "", ref |-> <<>>, written |-> {}, newHead |-> <<>>]
    ELSE CommitWrite(tx, d, cur)

\* The result of a Commit that was not called.
NoCommit == [err |-> "", ref |-> <<>>, written |-> {}, newHead |-> <<>>]

\* A response that reports every failed commit as an error.
responseWithoutRetry(r) ==
    IF r.err = ""
    THEN [ref |-> <<r.ref>>, retryCommit |-> FALSE, err |-> ""]
    ELSE [ref |-> <<>>, retryCommit |-> FALSE, err |-> r.err]

\* dispatchCommitTransaction: the response built from the result r of
\* tx.Commit. ref is <<h>> when the response carries the hash h.
commitTransactionResponse(r) ==
    IF r.err = ""
    THEN [ref |-> <<r.ref>>, retryCommit |-> FALSE, err |-> ""]
    ELSE IF r.err = "CommitError"
    THEN [ref |-> <<>>, retryCommit |-> TRUE, err |-> ""]
    ELSE [ref |-> <<>>, retryCommit |-> FALSE, err |-> r.err]

\* dispatchCommitTransaction: the response to the request.
dispatchCommitTransaction(id, d) ==
    IF findTransaction(id) # ""
    THEN [ref |-> <<>>, retryCommit |-> FALSE, err |-> findTransaction(id)]
    ELSE commitTransactionResponse(Commit(txs[id], d, dsHead))

\* dispatchCommitTransaction: findTransaction, removeTransaction, tx.Commit.
CommitTransaction(id, d) ==
    /\ Cardinality(store) < MaxStore
    /\ LET found == findTransaction(id) = ""
           r == IF found THEN Commit(txs[id], d, dsHead) ELSE NoCommit
       IN  /\ store' = store \cup r.written
           /\ head' = IF r.newHead # <<>> THEN r.newHead[1] ELSE head
           /\ dsHead' = IF r.newHead # <<>> THEN r.newHead[1] ELSE dsHead
           /\ last' = [NoResult EXCEPT !.op = "commitTransaction",
                                       !.ok = (found /\ r.err = "")]
           /\ txs' = IF found THEN removeTransaction(id) ELSE txs
    /\ UNCHANGED <<transactionCounter, dbTxs, syncing, mu, pulling, pulls>>
    /\ UNCHANGED threads

\* dispatchCloseTransaction: findTransaction, removeTransaction, tx.Close.
CloseTransaction(id) ==
    /\ txs' = IF findTransaction(id) = "" THEN removeTransaction(id) ELSE txs
    /\ last' = [NoResult EXCEPT !.ok = (findTransaction(id) = "")]
    /\ UNCHANGED <<store, head, dsHead, transactionCounter, dbTxs, syncing, mu, pulling, pulls>>
    /\ UNCHANGED threads

\* ------------------------------------------------------------------ sync
\* The Local metas handed to the pusher, earliest first.
Mutations(commits) == [i \in 1 .. Len(commits) |-> commits[i].meta.local]

PushInfos ==
    { [httpStatusCode |-> 200, errorMessage |-> ""],
      [httpStatusCode |-> 500, errorMessage |-> "body"],
      [httpStatusCode |-> 0, errorMessage |-> "connection refused"] }

PullFailures ==
    { [kind |-> k, stateID |-> "", lastMutationID |-> 0, patch |-> <<>>, checksum |-> 0] :
        k \in {"transport", "non200", "badjson"} }

PullResponses ==
    PullFailures \cup
    [kind : {"ok"}, stateID : StateIDs, lastMutationID : LastMutationIDs,
     patch : Patches, checksum : ChecksumVals]

\* defaultPuller.Pull: the error ("" for none) and the new snapshot.
Pull(baseState, resp) ==
    LET baseMap == baseState.value.data
        patched == ApplyPatch(baseMap, resp.patch)
    IN  IF resp.kind = "transport" THEN [err |-> "transport", snapshot |-> <<>>]
        ELSE IF resp.kind = "non200" THEN [err |-> "status code", snapshot |-> <<>>]
        ELSE IF resp.kind = "badjson" THEN [err |-> "not valid JSON", snapshot |-> <<>>]
        ELSE IF resp.lastMutationID < baseState.meta.snapshot.lastMutationID
        THEN [err |-> "lastMutationID is < previous lastMutationID", snapshot |-> <<>>]
        ELSE IF patched = <<>>
        THEN [err |-> "couldn't apply patch", snapshot |-> <<>>]
        ELSE IF Checksum(patched[1]) # resp.checksum
        THEN [err |-> "checksum mismatch", snapshot |-> <<>>]
        ELSE [err |-> "",
              snapshot |-> <<makeSnapshot(baseState, resp.stateID, patched[1],
                                          Checksum(patched[1]), resp.lastMutationID)>>]

\* A BeginSync that gives up when the push did not return status 200.
AfterPushStopOnFailure(info) ==
    IF info.httpStatusCode = 200 THEN "pull" ELSE "stop"

\* Where BeginSync goes once the push has returned info: it always continues
\* with the pull.
AfterPush(info) == "pull"

\* DB.BeginSync with master head h, the pusher returning info and the diff
\* server answering resp: the error, the sync head, SyncInfo.BatchPushInfo,
\* the mutations pushed and the commits written.
BeginSyncResult(h, info, resp) ==
    LET pending == pendingCommits(h)
        pushes == Len(pending) > 0
        pushed == IF pushes THEN <<Mutations(pending)>> ELSE <<>>
        bpi == IF pushes THEN <<info>> ELSE <<>>
        headSnapshot == baseSnapshot(h)
        p == Pull(headSnapshot, resp)
    IN  IF pushes /\ AfterPush(info) # "pull"
        THEN [err |-> "push failed", syncHead |-> <<>>, bpi |-> bpi,
              pushed |-> pushed, pulled |-> FALSE, written |-> {}]
        ELSE IF p.err # ""
        THEN [err |-> p.err, syncHead |-> <<>>, bpi |-> bpi,
              pushed |-> pushed, pulled |-> TRUE, written |-> {}]
        ELSE IF p.snapshot[1].meta.snapshot.serverStateID
                    = headSnapshot.meta.snapshot.serverStateID
        THEN [err |-> "", syncHead |-> <<>>, bpi |-> bpi,
              pushed |-> pushed, pulled |-> TRUE, written |-> {}]
        ELSE [err |-> "", syncHead |-> p.snapshot, bpi |-> bpi,
              pushed |-> pushed, pulled |-> TRUE, written |-> {p.snapshot[1]}]

\* What the pusher can return when BeginSync runs on head h; it is called
\* only when commits are pending.
PusherReturns(h) ==
    IF Len(pendingCommits(h)) > 0
    THEN PushInfos
    ELSE {[httpStatusCode |-> 200, errorMessage |-> ""]}

\* A BeginSync that sets the master head to the snapshot it wrote.
BeginSyncSettingHead(info, resp) ==
    /\ Cardinality(store) < MaxStore
    /\ LET r == BeginSyncResult(head, info, resp)
       IN  /\ store' = store \cup r.written
           /\ head' = IF r.syncHead # <<>> THEN r.syncHead[1] ELSE head
           /\ dsHead' = IF r.syncHead # <<>> THEN r.syncHead[1] ELSE dsHead
           /\ last' = [NoResult EXCEPT
                          !.op = "beginSync", !.ok = (r.err = ""),
                          !.push = IF r.bpi = <<>> THEN "none"
                                   ELSE IF r.bpi[1].httpStatusCode = 200
                                   THEN "ok" ELSE "failed"]
    /\ UNCHANGED <<txs, transactionCounter, dbTxs, syncing, mu, pulling, pulls>>
    /\ UNCHANGED threads

\* DB.BeginSync: it reads the head once, on entry, and then touches the
\* state shared with other requests only to write the snapshot commit.
BeginSync(info, resp) ==
    /\ Cardinality(store) < MaxStore
    /\ LET r == BeginSyncResult(head, info, resp)
       IN  /\ store' = store \cup r.written
           /\ last' = [NoResult EXCEPT
                          !.op = "beginSync", !.ok = (r.err = ""),
                          !.push = IF r.bpi = <<>> THEN "none"
                                   ELSE IF r.bpi[1].httpStatusCode = 200
                                   THEN "ok" ELSE "failed"]
    /\ UNCHANGED <<head, dsHead, txs, transactionCounter, dbTxs, syncing, mu, pulling, pulls>>
    /\ UNCHANGED threads

filterIDsLessThanOrEqualTo(commits, filter) ==
    SelectSeq(commits, LAMBDA c : MutationID(c) > filter)

ReplayMutations(commits) ==
    [i \in 1 .. Len(commits) |->
        [id |-> commits[i].meta.local.mutationID,
         name |-> commits[i].meta.local.name,
         args |-> commits[i].meta.local.args,
         original |-> commits[i]]]

\* A MaybeEndSync that sets the head to the sync head's base snapshot,
\* leaving out the commits replayed on top of it.
MaybeEndSyncFinishAtSnapshot(syncHead, commitsToReplay) ==
    IF Len(commitsToReplay) > 0
    THEN [err |-> "", replay |-> ReplayMutations(commitsToReplay),
          newHead |-> <<>>]
    ELSE [err |-> "", replay |-> <<>>,
          newHead |-> <<baseSnapshot(syncHead[1])>>]

\* A MaybeEndSync that sets the head although commits are left to replay.
MaybeEndSyncFinishAnyway(syncHead, commitsToReplay) ==
    [err |-> "", replay |-> ReplayMutations(commitsToReplay),
     newHead |-> syncHead]

\* DB.MaybeEndSync once fork detection has passed: with commits left to
\* replay it returns them and leaves the head; with none it sets the head to
\* the sync head.
MaybeEndSyncFinish(syncHead, commitsToReplay) ==
    IF Len(commitsToReplay) > 0
    THEN [err |-> "", replay |-> ReplayMutations(commitsToReplay),
          newHead |-> <<>>]
    ELSE [err |-> "", replay |-> <<>>, newHead |-> syncHead]

\* The panic of Commit.BasisRef on a commit without a parent.
ErrPanic == "panic: Unexpected number of parents"

\* A deferred unlock that a panic skips.
unlockUnlessPanic(err) == IF err = ErrPanic THEN "MaybeEndSync" ELSE "free"

\* The unlock MaybeEndSync defers: it runs when the call returns and when it
\* panics. The holder of DB.mu afterwards.
deferredUnlock(err) == "free"

\* Dispatch: the error it returns for the error or panic err of a handler.
Dispatch(err) ==
    IF err = ErrPanic
    THEN "Replicache panicked with: Unexpected number of parents - see stderr for more"
    ELSE err

\* DB.MaybeEndSync with master head cur: the error, the replay list and the
\* new head (<<>> when the head is not set).
MaybeEndSyncResult(syncHead, cur) ==
    IF ~ReadCommitOK(syncHead)
    THEN [err |-> "not found", replay |-> <<>>, newHead |-> <<>>]
    ELSE LET syncHeadCommit == syncHead[1]
             syncSnapshot == baseSnapshot(syncHeadCommit)
             headSnapshot == baseSnapshot(cur)
             commitsToReplay ==
                 filterIDsLessThanOrEqualTo(pendingCommits(cur),
                                            MutationID(syncHeadCommit))
         IN  IF ~HasBasis(syncSnapshot)
             THEN [err |-> ErrPanic,
                   replay |-> <<>>, newHead |-> <<>>]
             ELSE IF Basis(syncSnapshot) # headSnapshot
             THEN [err |-> "found a newer snapshot on master",
                   replay |-> <<>>, newHead |-> <<>>]
             ELSE MaybeEndSyncFinish(syncHead, commitsToReplay)

\* A MaybeEndSync that sets the in-memory head and leaves the master
\* dataset as it is.
MaybeEndSyncInMemory(syncHead) ==
    /\ IF ReadCommitOK(syncHead) THEN mu = "free" ELSE TRUE
    /\ LET r == MaybeEndSyncResult(syncHead, head)
       IN  /\ head' = IF r.newHead # <<>> THEN r.newHead[1] ELSE head
           /\ mu' = IF ReadCommitOK(syncHead) THEN deferredUnlock(r.err) ELSE mu
           /\ last' = [NoResult EXCEPT !.op = "maybeEndSync",
                                       !.ok = (Dispatch(r.err) = ""),
                                       !.panicked = (r.err = ErrPanic)]
    /\ UNCHANGED <<store, dsHead, txs, transactionCounter, dbTxs, syncing, pulling, pulls>>
    /\ UNCHANGED threads

\* DB.MaybeEndSync: under DB.mu, it sets the head of the master dataset and
\* the in-memory head when the sync is complete.
MaybeEndSync(syncHead) ==
    /\ IF ReadCommitOK(syncHead) THEN mu = "free" ELSE TRUE
    /\ LET r == MaybeEndSyncResult(syncHead, head)
       IN  /\ head' = IF r.newHead # <<>> THEN r.newHead[1] ELSE head
           /\ dsHead' = IF r.newHead # <<>> THEN r.newHead[1] ELSE dsHead
           /\ mu' = IF ReadCommitOK(syncHead) THEN deferredUnlock(r.err) ELSE mu
           /\ last' = [NoResult EXCEPT !.op = "maybeEndSync",
                                       !.ok = (Dispatch(r.err) = ""),
                                       !.panicked = (r.err = ErrPanic)]
    /\ UNCHANGED <<store, txs, transactionCounter, dbTxs, syncing, pulling, pulls>>
    /\ UNCHANGED threads

\* ---------------------------------------------------------- specification
Next ==
    \/ \E p \in TxParams, r \in RebaseOpts : OpenTransaction(p[1], p[2], r[1], r[2])
    \/ \E id \in TxIDs, k \in Keys, v \in Vals \cup {NoValue} : Put(id, k, v)
    \/ \E id \in TxIDs, d \in Dates : CommitTransaction(id, d)
    \/ \E id \in TxIDs : CloseTransaction(id)
    \/ \E info \in PusherReturns(head), resp \in PullResponses : BeginSync(info, resp)
    \/ \E syncHead \in Hashes : MaybeEndSync(syncHead)

Spec == Init /\ [][Next]_vars

\* --------------------------------------------- the db package, directly
\* A user of the db package holds Transaction objects and keeps them after
\* they are closed; BeginSync is two steps, the push and the pull, between
\* which other calls run.
MaxDBTx == 2
MaxDBStore == 3

\* The name and args of NewTransactionWithArgs.
DBTxParams == {<<"", ArgsNull>>, <<"f", "[]">>}

\* The basis and original of NewTransactionWithArgs: both nil, or a commit
\* read from the store and a local commit read from the store.
DBRebase ==
    {<<<<>>, <<>>>>} \cup
    {<<<<b>>, <<o>>>> : b \in store, o \in {c \in store : Type(c) = CommitTypeLocal}}

\* The values time.DateTime() returns to a direct user of the package.
DBDates == {1}

ErrClosed == "Transaction is closed"

Transaction_Get(tx, k) ==
    IF tx.closed
    THEN [err |-> ErrClosed, value |-> <<>>]
    ELSE [err |-> "", value |-> IF k \in DOMAIN tx.me THEN <<tx.me[k]>> ELSE <<>>]

Transaction_Has(tx, k) ==
    IF tx.closed
    THEN [err |-> ErrClosed, has |-> FALSE]
    ELSE [err |-> "", has |-> k \in DOMAIN tx.me]

\* Scan with the zero ScanOptions: every item of the map.
Transaction_Scan(tx) ==
    IF tx.closed
    THEN [err |-> ErrClosed, items |-> {}]
    ELSE [err |-> "", items |-> {<<k, tx.me[k]>> : k \in DOMAIN tx.me}]

\* A Put that does not look at tx.closed.
Transaction_PutUnguarded(tx, k, v) ==
    [err |-> "", tx |-> [tx EXCEPT !.me = MapSet(@, k, v), !.wrote = TRUE]]

Transaction_Put(tx, k, v) ==
    IF tx.closed
    THEN [err |-> ErrClosed, tx |-> tx]
    ELSE [err |-> "", tx |-> [tx EXCEPT !.me = MapSet(@, k, v), !.wrote = TRUE]]

Transaction_Del(tx, k) ==
    IF tx.closed
    THEN [err |-> ErrClosed, ok |-> FALSE, tx |-> tx]
    ELSE IF k \in DOMAIN tx.me
    THEN [err |-> "", ok |-> TRUE,
          tx |-> [tx EXCEPT !.me = MapRemove(@, k), !.wrote = TRUE]]
    ELSE [err |-> "", ok |-> FALSE, tx |-> tx]

Transaction_Close(tx) ==
    IF tx.closed
    THEN [err |-> ErrClosed, tx |-> tx]
    ELSE [err |-> "", tx |-> [tx EXCEPT !.closed = TRUE]]

Transaction_Commit(tx, d, cur) ==
    IF tx.closed
    THEN [err |-> ErrClosed, ref |-> <<>>, written |-> {}, newHead |-> <<>>,
          tx |-> tx]
    ELSE LET r == Commit(tx, d, cur)
         IN  [err |-> r.err, ref |-> r.ref, written |-> r.written,
              newHead |-> r.newHead, tx |-> [tx EXCEPT !.closed = TRUE]]

\* NewTransactionWithArgs reads the head through DB.Head, which takes DB.mu.
CallNewTransaction(name, args, basis, original) ==
    /\ mu = "free"
    /\ Cardinality(DOMAIN dbTxs) < MaxDBTx
    /\ Cardinality(store) < MaxDBStore
    /\ LET h == Cardinality(DOMAIN dbTxs) + 1
           tx == NewTransactionWithArgs(name, args, basis, original)
       IN  dbTxs' = [i \in (DOMAIN dbTxs) \cup {h} |->
                        IF i = h THEN tx ELSE dbTxs[i]]
    /\ last' = NoResult
    /\ UNCHANGED <<store, head, dsHead, syncing>>
    /\ UNCHANGED connVars
    /\ UNCHANGED <<mu, pulling, pulls>>
    /\ UNCHANGED threads

CallGet(h, k) ==
    /\ h \in DOMAIN dbTxs
    /\ last' = [NoResult EXCEPT !.ok = (Transaction_Get(dbTxs[h], k).err = "")]
    /\ UNCHANGED <<store, head, dsHead, dbTxs, syncing>>
    /\ UNCHANGED connVars
    /\ UNCHANGED <<mu, pulling, pulls>>
    /\ UNCHANGED threads

CallHas(h, k) ==
    /\ h \in DOMAIN dbTxs
    /\ last' = [NoResult EXCEPT !.ok = (Transaction_Has(dbTxs[h], k).err = "")]
    /\ UNCHANGED <<store, head, dsHead, dbTxs, syncing>>
    /\ UNCHANGED connVars
    /\ UNCHANGED <<mu, pulling, pulls>>
    /\ UNCHANGED threads

CallScan(h) ==
    /\ h \in DOMAIN dbTxs
    /\ last' = [NoResult EXCEPT !.ok = (Transaction_Scan(dbTxs[h]).err = "")]
    /\ UNCHANGED <<store, head, dsHead, dbTxs, syncing>>
    /\ UNCHANGED connVars
    /\ UNCHANGED <<mu, pulling, pulls>>
    /\ UNCHANGED threads

CallPut(h, k, v) ==
    /\ h \in DOMAIN dbTxs
    /\ Cardinality(store) < MaxDBStore
    /\ LET r == Transaction_Put(dbTxs[h], k, v)
       IN  /\ dbTxs' = [dbTxs EXCEPT ![h] = r.tx]
           /\ last' = [NoResult EXCEPT !.ok = (r.err = "")]
    /\ UNCHANGED <<store, head, dsHead, syncing>>
    /\ UNCHANGED connVars
    /\ UNCHANGED <<mu, pulling, pulls>>
    /\ UNCHANGED threads

CallDel(h, k) ==
    /\ h \in DOMAIN dbTxs
    /\ Cardinality(store) < MaxDBStore
    /\ LET r == Transaction_Del(dbTxs[h], k)
       IN  /\ dbTxs' = [dbTxs EXCEPT ![h] = r.tx]
           /\ last' = [NoResult EXCEPT !.ok = (r.err = "")]
    /\ UNCHANGED <<store, head, dsHead, syncing>>
    /\ UNCHANGED connVars
    /\ UNCHANGED <<mu, pulling, pulls>>
    /\ UNCHANGED threads

\* Transaction.Commit reaches DB.setHead, which takes DB.mu, when the
\* transaction is open, wrote and is not a replay.
CommitLocks(tx) == ~tx.closed /\ tx.wrote /\ ~IsReplay(tx)

CallCommit(h, d) ==
    /\ h \in DOMAIN dbTxs
    /\ IF CommitLocks(dbTxs[h]) THEN mu = "free" ELSE TRUE
    /\ Cardinality(store) < MaxDBStore
    /\ LET r == Transaction_Commit(dbTxs[h], d, dsHead)
       IN  /\ store' = store \cup r.written
           /\ head' = IF r.newHead # <<>> THEN r.newHead[1] ELSE head
           /\ dsHead' = IF r.newHead # <<>> THEN r.newHead[1] ELSE dsHead
           /\ dbTxs' = [dbTxs EXCEPT ![h] = r.tx]
           /\ last' = [NoResult EXCEPT !.op = "commit", !.ok = (r.err = "")]
    /\ UNCHANGED syncing
    /\ UNCHANGED connVars
    /\ UNCHANGED <<mu, pulling, pulls>>
    /\ UNCHANGED threads

CallClose(h) ==
    /\ h \in DOMAIN dbTxs
    /\ LET r == Transaction_Close(dbTxs[h])
       IN  /\ dbTxs' = [dbTxs EXCEPT ![h] = r.tx]
           /\ last' = [NoResult EXCEPT !.ok = (r.err = "")]
    /\ UNCHANGED <<store, head, dsHead, syncing>>
    /\ UNCHANGED connVars
    /\ UNCHANGED <<mu, pulling, pulls>>
    /\ UNCHANGED threads

\* A BeginSync that reads the master head again when it needs it.
SyncHeadReread(s) == head

\* The head a BeginSync call works on: the local it read on entry.
SyncHeadRead(s) == s.head

\* A BeginSync that keeps DB.mu while it waits for the pusher and the puller.
BeginSyncPushHoldingLock(info) ==
    /\ mu = "free"
    /\ IF syncing = <<>> THEN TRUE ELSE syncing[1].stage = "returned"
    /\ Cardinality(store) < MaxDBStore
    /\ LET pending == pendingCommits(head)
           pushes == Len(pending) > 0
       IN  syncing' = <<[head |-> head,
                         pushed |-> IF pushes THEN <<Mutations(pending)>> ELSE <<>>,
                         bpi |-> IF pushes THEN <<info>> ELSE <<>>,
                         stage |-> "pushed",
                         syncHead |-> <<>>]>>
    /\ mu' = "BeginSync"
    /\ last' = NoResult
    /\ UNCHANGED <<store, head, dsHead, dbTxs>>
    /\ UNCHANGED connVars
    /\ UNCHANGED <<pulling, pulls>>
    /\ UNCHANGED threads

\* DB.BeginSync up to the return of the pusher: it reads the head through
\* DB.Head, which takes DB.mu and releases it, and, when commits are
\* pending, pushes them.
BeginSyncPush(info) ==
    /\ mu = "free"
    /\ IF syncing = <<>> THEN TRUE ELSE syncing[1].stage = "returned"
    /\ Cardinality(store) < MaxDBStore
    /\ LET pending == pendingCommits(head)
           pushes == Len(pending) > 0
       IN  syncing' = <<[head |-> head,
                         pushed |-> IF pushes THEN <<Mutations(pending)>> ELSE <<>>,
                         bpi |-> IF pushes THEN <<info>> ELSE <<>>,
                         stage |-> "pushed",
                         syncHead |-> <<>>]>>
    /\ mu' = "free"
    /\ last' = NoResult
    /\ UNCHANGED <<store, head, dsHead, dbTxs>>
    /\ UNCHANGED connVars
    /\ UNCHANGED <<pulling, pulls>>
    /\ UNCHANGED threads

\* What the puller returns to a BeginSync in progress.
DBPullResponses ==
    {r \in PullResponses :
        /\ r.kind \in {"ok", "non200"}
        /\ r.lastMutationID = 0
        /\ r.patch \in {<<>>, <<OpAdd("a", 1)>>}}

\* DB.BeginSync from the pull on: the base snapshot is that of the head read
\* on entry.
BeginSyncPull(resp) ==
    /\ syncing # <<>>
    /\ syncing[1].stage = "pushed"
    /\ LET s == syncing[1]
           info == IF s.bpi # <<>> THEN s.bpi[1]
                   ELSE [httpStatusCode |-> 200, errorMessage |-> ""]
           r == BeginSyncResult(SyncHeadRead(s), info, resp)
       IN  /\ store' = store \cup r.written
           /\ syncing' = <<[s EXCEPT !.stage = "returned", !.pushed = <<>>,
                                       !.bpi = <<>>, !.syncHead = r.syncHead]>>
           /\ last' = [NoResult EXCEPT
                          !.op = "beginSync", !.ok = (r.err = ""),
                          !.push = IF s.bpi = <<>> THEN "none"
                                   ELSE IF s.bpi[1].httpStatusCode = 200
                                   THEN "ok" ELSE "failed"]
    /\ UNCHANGED <<head, dsHead, dbTxs>>
    /\ UNCHANGED connVars
    /\ UNCHANGED <<mu, pulling, pulls>>
    /\ UNCHANGED threads

\* DB.initLocked on a dataset that has a head: the head it unmarshals.
initLocked == dsHead

\* DB.Reload: under DB.mu, it sets the in-memory head from the dataset.
Reload ==
    /\ mu = "free"
    /\ head' = initLocked
    /\ last' = [NoResult EXCEPT !.op = "reload"]
    /\ UNCHANGED <<store, dsHead, dbTxs, syncing>>
    /\ UNCHANGED connVars
    /\ UNCHANGED <<mu, pulling, pulls>>
    /\ UNCHANGED threads

NextDB ==
    \/ \E p \in DBTxParams, r \in DBRebase :
           CallNewTransaction(p[1], p[2], r[1], r[2])
    \/ \E h \in DOMAIN dbTxs, k \in Keys : CallGet(h, k)
    \/ \E h \in DOMAIN dbTxs, k \in Keys : CallHas(h, k)
    \/ \E h \in DOMAIN dbTxs : CallScan(h)
    \/ \E h \in DOMAIN dbTxs, k \in Keys, v \in Vals : CallPut(h, k, v)
    \/ \E h \in DOMAIN dbTxs, k \in Keys : CallDel(h, k)
    \/ \E h \in DOMAIN dbTxs, d \in DBDates : CallCommit(h, d)
    \/ \E h \in DOMAIN dbTxs : CallClose(h)
    \/ \E info \in PusherReturns(head) : BeginSyncPush(info)
    \/ \E resp \in DBPullResponses : BeginSyncPull(resp)
    \/ \E syncHead \in Hashes : MaybeEndSync(syncHead)
    \/ Reload

SpecDB == Init /\ [][NextDB]_vars

\* ------------------------------------------------- the legacy pull path
\* A legacy connection serves pull requests; the host may send one while
\* another is being served. Each step below is one atomic operation of
\* dispatchPull or one stretch of DB.Pull between two of them.

\* atomic.CompareAndSwapInt32: TRUE when the flag held old.
CompareAndSwap(flag, old) == flag = old

\* dispatchPull up to its first CompareAndSwap: a flag that is not 0
\* rejects the request.
PullEnter(r) ==
    /\ pulls[r].pc = "idle"
    /\ IF CompareAndSwap(pulling, 0)
       THEN /\ pulling' = 1
            /\ pulls' = [pulls EXCEPT ![r].pc = "entered"]
            /\ last' = NoResult
       ELSE /\ UNCHANGED <<pulling, pulls>>
            /\ last' = [NoResult EXCEPT !.op = "pull", !.ok = FALSE]
    /\ UNCHANGED <<store, head, dsHead, txs, transactionCounter, dbTxs, syncing, mu>>
    /\ UNCHANGED threads

\* The defer statement of dispatchPull: the argument of the deferred
\* chk.True, the CompareAndSwap from 1 to 0, is evaluated when the statement
\* is executed.
PullDefer(r) ==
    /\ pulls[r].pc = "entered"
    /\ pulling' = IF CompareAndSwap(pulling, 1) THEN 0 ELSE pulling
    /\ pulls' = [pulls EXCEPT ![r].pc = "deferred"]
    /\ last' = NoResult
    /\ UNCHANGED <<store, head, dsHead, txs, transactionCounter, dbTxs, syncing, mu>>
    /\ UNCHANGED threads

\* DB.Pull up to the HTTP request: it reads the base snapshot of db.head.
PullRequest(r) ==
    /\ pulls[r].pc = "deferred"
    /\ pulls' = [pulls EXCEPT ![r] = [pc |-> "waiting",
                                      genesis |-> <<baseSnapshot(head)>>]]
    /\ last' = NoResult
    /\ UNCHANGED <<store, head, dsHead, txs, transactionCounter, dbTxs, syncing, mu, pulling>>
    /\ UNCHANGED threads

\* DB.Pull from the HTTP response on: the error ("" for none) and the new
\* head it makes of the base snapshot genesis.
LegacyPull(genesis, resp) == Pull(genesis, resp)

\* DB.Pull once the diff server answered, and the return of dispatchPull:
\* the new snapshot is written, made the head of the dataset and loaded.
PullRespond(r, resp) ==
    /\ pulls[r].pc = "waiting"
    /\ Cardinality(store) < MaxStore
    /\ LET p == LegacyPull(pulls[r].genesis[1], resp)
       IN  /\ store' = IF p.err = "" THEN store \cup {p.snapshot[1]} ELSE store
           /\ head' = IF p.err = "" THEN p.snapshot[1] ELSE head
           /\ dsHead' = IF p.err = "" THEN p.snapshot[1] ELSE dsHead
           /\ last' = [NoResult EXCEPT !.op = "pull", !.ok = (p.err = "")]
    /\ pulls' = [pulls EXCEPT ![r] = IdlePull]
    /\ UNCHANGED <<txs, transactionCounter, dbTxs, syncing, mu, pulling>>
    /\ UNCHANGED threads

NextPull ==
    \/ \E r \in PullRequests : PullEnter(r)
    \/ \E r \in PullRequests : PullDefer(r)
    \/ \E r \in PullRequests : PullRequest(r)
    \/ \E r \in PullRequests, resp \in PullResponses : PullRespond(r, resp)

SpecPull == Init /\ [][NextPull]_vars

\* ------------------------------------------- requests on several threads
\* The host sends requests to one connection from several threads. Each step
\* below is what a request does between two lock operations; a request
\* waits, at a pc named after the function that locks, until the lock is
\* there. The table holds pointers: txs gives the ids in the table, dbTxs the
\* Transaction objects they point to.
MaxThreadTx == 1
MaxThreadStore == 3

\* The locks: connection.transactionMutex and Transaction.mutex, each held
\* for reading or for writing, and DB.mu.
TableR == <<"transactionMutex", 0, "r">>
TableW == <<"transactionMutex", 0, "w">>
TxR(id) == <<"mutex", id, "r">>
TxW(id) == <<"mutex", id, "w">>
MuLock == <<"mu", 0, "w">>

\* A DB.lock that does not wait for DB.mu.
lockWithoutWaiting == TRUE

\* DB.lock: it waits until DB.mu is free.
lock == mu = "free"

\* sync.RWMutex: Lock waits until nobody holds the mutex, RLock until nobody
\* holds it for writing.
Available(l) ==
    IF l = MuLock THEN lock
    ELSE \A u \in Threads : \A h \in threads[u].held :
             (h[1] = l[1] /\ h[2] = l[2]) => (l[3] = "r" /\ h[3] = "r")

\* The lock the request of thread t waits for once it has started, <<>> when
\* it waits for none.
Wants(t) ==
    LET th == threads[t]
    IN  CASE th.pc = "removeTransaction" -> TableW
          [] th.pc = "Closed" -> TxR(th.id)
          [] th.pc \in {"Put", "Close", "Commit"} -> TxW(th.id)
          [] th.pc \in {"setHead", "Head"} -> MuLock
          [] OTHER -> <<>>

\* The requests a thread sends and the function each locks first.
ThreadOps ==
    {"put", "commitTransaction", "closeTransaction", "openTransaction",
     "getRoot", "beginSync", "maybeEndSync"}

FirstCall(op) ==
    CASE op \in {"put", "commitTransaction", "closeTransaction"} -> "findTransaction"
      [] op = "openTransaction" -> "newTransaction"
      [] op \in {"getRoot", "beginSync"} -> "Head"
      [] OTHER -> "MaybeEndSync"

\* The rebaseOpts of the openTransaction requests of the threads: absent, or
\* a basis that is not in the store.
ThreadRebase == {<<<<>>, <<>>>>, <<<<Dangling>>, <<>>>>}

\* The name and args of the openTransaction requests of the threads.
ThreadTxParams == {<<"f", "[]">>}

\* What the diff server answers to the threads: no patch.
ThreadPullResponses == {r \in DBPullResponses : r.patch = <<>>}

Result(op, ok) == [NoResult EXCEPT !.op = op, !.ok = ok]

\* The thread after its request returned, the unlocks it deferred done.
Return(t, released) ==
    [threads EXCEPT ![t] = [IdleThread EXCEPT !.held = threads[t].held \ released]]

\* The locks a return gives back when DB.mu is muAfter afterwards.
Unlocked(muAfter) == IF muAfter = "free" THEN {MuLock} ELSE {}

\* The lock that FirstCall(op) takes on the transaction id.
FirstLock(op) ==
    CASE FirstCall(op) = "findTransaction" -> TableR
      [] FirstCall(op) = "newTransaction" -> TableW
      [] OTHER -> MuLock

\* A thread sends a request and the request gets its first lock.
\* MaybeEndSync reads the sync head's commit before it locks and returns at
\* once when it is not there.
Start(t, op, id, syncHead) ==
    /\ threads[t].pc = "idle"
    /\ IF op = "openTransaction" THEN transactionCounter <= MaxThreadTx ELSE TRUE
    /\ IF op = "maybeEndSync" /\ ~ReadCommitOK(syncHead)
       THEN /\ last' = Result(op, FALSE)
            /\ UNCHANGED <<threads, mu>>
       ELSE /\ Available(FirstLock(op))
            /\ threads' = [threads EXCEPT
                              ![t].pc = IF FirstCall(op) = "findTransaction"
                                        THEN "findTransaction.locked"
                                        ELSE IF FirstCall(op) = "newTransaction"
                                        THEN "newTransaction.locked"
                                        ELSE IF FirstCall(op) = "Head"
                                        THEN "Head.locked"
                                        ELSE "MaybeEndSync.locked",
                              ![t].op = op,
                              ![t].id = IF FirstCall(op) = "findTransaction"
                                        THEN id ELSE 0,
                              ![t].arg = IF op = "maybeEndSync"
                                         THEN syncHead ELSE <<>>,
                              ![t].held = {FirstLock(op)}]
            /\ mu' = IF FirstLock(op) = MuLock THEN FirstCall(op) ELSE mu
            /\ UNCHANGED last
    /\ UNCHANGED <<store, head, dsHead, txs, transactionCounter, dbTxs, syncing,
                   pulling, pulls>>

\* Lock, RLock and DB.lock return: the request holds the lock it waited for.
Acquire(t) ==
    /\ Wants(t) # <<>>
    /\ Available(Wants(t))
    /\ threads' = [threads EXCEPT ![t].pc = IF @ = "Commit" THEN "Commit.locked"
                                            ELSE IF @ = "Close" THEN "Close.locked"
                                            ELSE IF @ = "Put" THEN "Put.locked"
                                            ELSE IF @ = "Closed" THEN "Closed.locked"
                                            ELSE IF @ = "removeTransaction"
                                            THEN "removeTransaction.locked"
                                            ELSE IF @ = "setHead" THEN "setHead.locked"
                                            ELSE "Head.locked",
                                   ![t].held = @ \cup {Wants(t)}]
    /\ mu' = IF Wants(t) = MuLock THEN threads[t].pc ELSE mu
    /\ UNCHANGED <<store, head, dsHead, txs, transactionCounter, last, dbTxs,
                   syncing, pulling, pulls>>

\* connection.findTransaction under the read lock, and its deferred RUnlock.
FindTransactionLocked(t) ==
    /\ threads[t].pc = "findTransaction.locked"
    /\ LET th == threads[t]
           found == findTransaction(th.id) = ""
       IN  /\ threads' = IF ~found THEN Return(t, {TableR})
                         ELSE [threads EXCEPT
                                  ![t].held = @ \ {TableR},
                                  ![t].pc = IF th.op = "put" THEN "Closed"
                                            ELSE "removeTransaction"]
           /\ last' = IF found THEN last
                      ELSE IF th.op = "commitTransaction"
                      THEN Result(th.op, FALSE)
                      ELSE [NoResult EXCEPT !.ok = FALSE]
    /\ UNCHANGED <<store, head, dsHead, txs, transactionCounter, dbTxs, syncing,
                   mu, pulling, pulls>>

\* connection.removeTransaction under the write lock, and its deferred
\* Unlock; tx.Commit or tx.Close is called next.
RemoveTransactionLocked(t) ==
    /\ threads[t].pc = "removeTransaction.locked"
    /\ txs' = removeTransaction(threads[t].id)
    /\ threads' = [threads EXCEPT
                      ![t].held = @ \ {TableW},
                      ![t].pc = IF threads[t].op = "commitTransaction"
                                THEN "Commit" ELSE "Close"]
    /\ UNCHANGED <<store, head, dsHead, transactionCounter, last, dbTxs,
                   syncing, mu, pulling, pulls>>

\* Transaction.Close under the write lock.
CloseLocked(t) ==
    /\ threads[t].pc = "Close.locked"
    /\ LET id == threads[t].id
           r == Transaction_Close(dbTxs[id])
       IN  /\ dbTxs' = [dbTxs EXCEPT ![id] = r.tx]
           /\ threads' = Return(t, {TxW(id)})
           /\ last' = [NoResult EXCEPT !.ok = (r.err = "")]
    /\ UNCHANGED <<store, head, dsHead, txs, transactionCounter, syncing, mu,
                   pulling, pulls>>

\* Transaction.Commit under the write lock, up to the call of DB.setHead, or
\* up to its return when it does not call it.
CommitLocked(t, d) ==
    /\ threads[t].pc = "Commit.locked"
    /\ Cardinality(store) < MaxThreadStore
    /\ LET id == threads[t].id
           r == Transaction_Commit(dbTxs[id], d, dsHead)
       IN  /\ store' = store \cup r.written
           /\ dbTxs' = [dbTxs EXCEPT ![id] = r.tx]
           /\ IF CommitLocks(dbTxs[id])
              THEN /\ threads' = [threads EXCEPT
                                     ![t].pc = "setHead",
                                     ![t].arg = <<CHOOSE c \in r.written : TRUE>>]
                   /\ UNCHANGED last
              ELSE /\ threads' = Return(t, {TxW(id)})
                   /\ last' = Result("commitTransaction", r.err = "")
    /\ UNCHANGED <<head, dsHead, txs, transactionCounter, syncing, mu, pulling,
                   pulls>>

\* DB.setHead under DB.mu: the fast-forward of the master dataset. When it
\* fails setHead and Commit return, and their deferred unlocks run.
SetHeadLocked(t) ==
    /\ threads[t].pc = "setHead.locked"
    /\ LET th == threads[t]
       IN  IF setHead(dsHead, th.arg[1])
           THEN /\ dsHead' = th.arg[1]
                /\ threads' = [threads EXCEPT ![t].pc = "db.head"]
                /\ UNCHANGED <<mu, last>>
           ELSE /\ threads' = Return(t, {MuLock, TxW(th.id)})
                /\ mu' = "free"
                /\ last' = Result(th.op, FALSE)
                /\ UNCHANGED dsHead
    /\ UNCHANGED <<store, head, txs, transactionCounter, dbTxs, syncing,
                   pulling, pulls>>

\* The assignment to db.head that ends DB.setHead and DB.MaybeEndSync, and
\* the deferred unlocks of the request.
AssignHead(t) ==
    /\ threads[t].pc = "db.head"
    /\ LET th == threads[t]
           muAfter == IF th.op = "maybeEndSync" THEN deferredUnlock("") ELSE "free"
       IN  /\ head' = th.arg[1]
           /\ mu' = muAfter
           /\ threads' = Return(t, Unlocked(muAfter) \cup
                                   (IF th.op = "commitTransaction"
                                    THEN {TxW(th.id)} ELSE {}))
           /\ last' = Result(th.op, TRUE)
    /\ UNCHANGED <<store, dsHead, txs, transactionCounter, dbTxs, syncing,
                   pulling, pulls>>

\* Transaction.Closed under the read lock, at the start of Transaction.Put.
ClosedLocked(t) ==
    /\ threads[t].pc = "Closed.locked"
    /\ LET id == threads[t].id
       IN  IF dbTxs[id].closed
           THEN /\ threads' = Return(t, {TxR(id)})
                /\ last' = [NoResult EXCEPT !.ok = FALSE]
           ELSE /\ threads' = [threads EXCEPT ![t].held = @ \ {TxR(id)},
                                              ![t].pc = "Put"]
                /\ UNCHANGED last
    /\ UNCHANGED <<store, head, dsHead, txs, transactionCounter, dbTxs, syncing,
                   mu, pulling, pulls>>

\* Transaction.Put under the write lock: tx.me.Set and tx.wrote.
PutLocked(t, k, v) ==
    /\ threads[t].pc = "Put.locked"
    /\ LET id == threads[t].id
       IN  /\ dbTxs' = [dbTxs EXCEPT ![id].me = MapSet(@, k, v),
                                     ![id].wrote = TRUE]
           /\ threads' = Return(t, {TxW(id)})
           /\ last' = NoResult
    /\ UNCHANGED <<store, head, dsHead, txs, transactionCounter, syncing, mu,
                   pulling, pulls>>

\* connection.newTransaction under the write lock of the table, up to the
\* call of NewTransactionWithArgs, or up to its return when the parameters
\* are rejected.
NewTransactionLocked(t, p, r) ==
    /\ threads[t].pc = "newTransaction.locked"
    /\ transactionCounter' = nextTransactionID(transactionCounter)
    /\ IF newTransactionErr(p[1], p[2], r[1], r[2]) # ""
       THEN /\ threads' = Return(t, {TableW})
            /\ last' = Result("openTransaction", FALSE)
       ELSE /\ threads' = [threads EXCEPT ![t].pc = "Head",
                                          ![t].id = transactionCounter,
                                          ![t].arg = p]
            /\ UNCHANGED last
    /\ UNCHANGED <<store, head, dsHead, txs, dbTxs, syncing, mu, pulling, pulls>>

\* DB.Head under DB.mu, and what its caller does with the head: getRoot
\* returns it, BeginSync goes on to push and pull, NewTransactionWithArgs
\* builds the transaction that newTransaction puts in the table.
HeadLocked(t) ==
    /\ threads[t].pc = "Head.locked"
    /\ mu' = "free"
    /\ LET th == threads[t]
           tx == IF th.arg[1] = "" /\ th.arg[2] = ""
                 THEN NewTransaction
                 ELSE NewTransactionWithArgs(th.arg[1], ArgsFromJSON(th.arg[2])[1],
                                             <<>>, <<>>)
       IN  IF th.op = "openTransaction"
           THEN /\ dbTxs' = [i \in (DOMAIN dbTxs) \cup {th.id} |->
                                IF i = th.id THEN tx ELSE dbTxs[i]]
                /\ txs' = [i \in (DOMAIN txs) \cup {th.id} |-> i]
                /\ threads' = Return(t, {MuLock, TableW})
                /\ last' = NoResult
           ELSE IF th.op = "beginSync"
           THEN /\ threads' = [threads EXCEPT ![t].pc = "Pull",
                                              ![t].read = <<head>>,
                                              ![t].held = @ \ {MuLock}]
                /\ UNCHANGED <<dbTxs, txs, last>>
           ELSE /\ threads' = Return(t, {MuLock})
                /\ last' = NoResult
                /\ UNCHANGED <<dbTxs, txs>>
    /\ UNCHANGED <<store, head, dsHead, transactionCounter, syncing, pulling, pulls>>

\* DB.BeginSync after DB.Head: the push and the pull on the head it read,
\* without a lock.
BeginSyncUnlocked(t, resp) ==
    /\ threads[t].pc = "Pull"
    /\ Cardinality(store) < MaxThreadStore
    /\ LET r == BeginSyncResult(threads[t].read[1],
                                [httpStatusCode |-> 200, errorMessage |-> ""],
                                resp)
       IN  /\ store' = store \cup r.written
           /\ last' = Result("beginSync", r.err = "")
    /\ threads' = Return(t, {})
    /\ UNCHANGED <<head, dsHead, txs, transactionCounter, dbTxs, syncing, mu,
                   pulling, pulls>>

\* DB.MaybeEndSync under DB.mu, up to the assignment to db.head, or up to its
\* return or panic when the sync is not complete.
MaybeEndSyncLocked(t) ==
    /\ threads[t].pc = "MaybeEndSync.locked"
    /\ LET r == MaybeEndSyncResult(threads[t].arg, head)
           muAfter == deferredUnlock(r.err)
       IN  IF r.newHead # <<>>
           THEN /\ dsHead' = r.newHead[1]
                /\ threads' = [threads EXCEPT ![t].pc = "db.head"]
                /\ UNCHANGED <<mu, last>>
           ELSE /\ mu' = muAfter
                /\ threads' = Return(t, Unlocked(muAfter))
                /\ last' = [Result("maybeEndSync", Dispatch(r.err) = "")
                               EXCEPT !.panicked = (r.err = ErrPanic)]
                /\ UNCHANGED dsHead
    /\ UNCHANGED <<store, head, txs, transactionCounter, dbTxs, syncing,
                   pulling, pulls>>

NextThreads ==
    \/ \E t \in Threads, op \in ThreadOps, id \in 1 .. MaxThreadTx,
          syncHead \in Hashes : Start(t, op, id, syncHead)
    \/ \E t \in Threads : Acquire(t)
    \/ \E t \in Threads : FindTransactionLocked(t)
    \/ \E t \in Threads : RemoveTransactionLocked(t)
    \/ \E t \in Threads : CloseLocked(t)
    \/ \E t \in Threads, d \in DBDates : CommitLocked(t, d)
    \/ \E t \in Threads : SetHeadLocked(t)
    \/ \E t \in Threads : AssignHead(t)
    \/ \E t \in Threads : ClosedLocked(t)
    \/ \E t \in Threads, k \in Keys, v \in Vals : PutLocked(t, k, v)
    \/ \E t \in Threads, p \in ThreadTxParams, r \in ThreadRebase :
           NewTransactionLocked(t, p, r)
    \/ \E t \in Threads : HeadLocked(t)
    \/ \E t \in Threads, resp \in ThreadPullResponses :
           BeginSyncUnlocked(t, resp)
    \/ \E t \in Threads : MaybeEndSyncLocked(t)

SpecThreads == Init /\ [][NextThreads]_vars

\* ------------------------------------------- the specification's terms
\* A local commit is a commit whose meta is Local, a snapshot commit one
\* whose meta is Snapshot.
SpecIsLocal(c) == c.meta.local # ZeroLocal

\* The mutationID of a local commit, the lastMutationID of a snapshot.
SpecMutationID(c) ==
    IF SpecIsLocal(c)
    THEN c.meta.local.mutationID
    ELSE c.meta.snapshot.lastMutationID

SpecNextMutationID(c) == SpecMutationID(c) + 1

\* The nearest commit on the parent chain of c, c included, that is a
\* snapshot commit.
RECURSIVE SpecBaseSnapshot(_)
SpecBaseSnapshot(c) ==
    IF SpecIsLocal(c) THEN SpecBaseSnapshot(Basis(c)) ELSE c

\* The local commits between c and its base snapshot, earliest first.
RECURSIVE SpecPendingCommits(_)
SpecPendingCommits(c) ==
    IF SpecIsLocal(c) THEN Append(SpecPendingCommits(Basis(c)), c) ELSE <<>>

\* The commits on the parent chain of c, c included.
Chain(c) == {c} \cup Ancestors(c)

\* ------------------------------------------------------------------ C1
\* C1: a non-replay write transaction whose basis is no longer the master
\* head when it commits always fails with CommitError, returns a zero ref
\* and leaves the master head unchanged.
C1_StaleCommitFails ==
    [][\A id \in DOMAIN txs, d \in Dates :
          ( /\ CommitTransaction(id, d)
            /\ ~IsReplay(txs[id])
            /\ txs[id].wrote
            /\ txs[id].basis # head )
          => ( /\ Commit(txs[id], d, dsHead).err = "CommitError"
               /\ Commit(txs[id], d, dsHead).ref = <<>>
               /\ head' = head )]_vars

\* ------------------------------------------------------------------ C2
\* C2 as stated: every change of the master head, by a transaction commit
\* or by MaybeEndSync, moves it from the head h to a commit n such that h is
\* an ancestor of n.
C2_HeadOnlyMovesToDescendant ==
    [][head' # head => head \in Ancestors(head')]_vars

\* C2 amended: a change of the head made by a transaction commit moves it
\* from h to a commit whose parent is h; a change made by MaybeEndSync sets
\* it to a commit n that is not an ancestor of h and descends from the base
\* snapshot of h, h itself not having to be an ancestor of n.
C2_HeadMoves ==
    [][head' # head =>
          \/ /\ last'.op = "commitTransaction"
             /\ HasBasis(head')
             /\ Basis(head') = head
          \/ /\ last'.op = "maybeEndSync"
             /\ head' \notin Ancestors(head)
             /\ SpecBaseSnapshot(head) \in Ancestors(head')]_vars

\* MaybeEndSync has just set the head to a replayed commit whose original,
\* a commit of the store, is not among its ancestors.
C2_Witness ==
    /\ last.op = "maybeEndSync"
    /\ head.meta.local.original # <<>>
    /\ head.meta.local.original[1] \in store
    /\ head.meta.local.original[1] \notin Ancestors(head)

\* ------------------------------------------------------------------ C3
\* C3: every local commit c on the parent chain of the master head has
\* c.mutationID = parent(c).nextMutationID, whether its transaction was
\* opened with or without a name, and whether or not it is a replay.
C3_MutationIDsFollowParent ==
    \A c \in Chain(head) :
        SpecIsLocal(c) =>
            c.meta.local.mutationID = SpecNextMutationID(Basis(c))

\* ------------------------------------------------------------------ C4
\* C4 as stated: whenever MaybeEndSync returns an empty replay list, in the
\* resulting state pending_commits(head) is empty and the serverStateID of
\* base_snapshot(head) is the stateID of the last pull, the one that wrote
\* the sync head's base snapshot.
C4_NothingPendingAfterEndSync ==
    [][last'.op = "maybeEndSync" =>
          \A syncHead \in Hashes :
              ( /\ MaybeEndSync(syncHead)
                /\ MaybeEndSyncResult(syncHead, head).err = ""
                /\ MaybeEndSyncResult(syncHead, head).replay = <<>> )
              => ( /\ SpecPendingCommits(head') = <<>>
                   /\ SpecBaseSnapshot(head').meta.snapshot.serverStateID
                        = SpecBaseSnapshot(syncHead[1]).meta.snapshot.serverStateID )]_vars

\* C4 amended: whenever MaybeEndSync returns an empty replay list without
\* error, in the resulting state the head is the sync head it was given, so
\* pending_commits(head) are the sync head's pending commits (the replayed
\* mutations, not necessarily none) and base_snapshot(head) is the sync
\* head's base snapshot.
C4_HeadIsSyncHeadAfterEndSync ==
    [][last'.op = "maybeEndSync" =>
          \A syncHead \in Hashes :
              ( /\ MaybeEndSync(syncHead)
                /\ MaybeEndSyncResult(syncHead, head).err = ""
                /\ MaybeEndSyncResult(syncHead, head).replay = <<>> )
              => ( /\ SpecPendingCommits(head') = SpecPendingCommits(syncHead[1])
                   /\ SpecBaseSnapshot(head') = SpecBaseSnapshot(syncHead[1]) )]_vars

\* MaybeEndSync has just set the head to a replayed commit: one commit is
\* pending on the new head, on top of a snapshot that a pull wrote.
C4_Witness ==
    /\ last.op = "maybeEndSync"
    /\ last.ok
    /\ head.meta.local.original # <<>>
    /\ Len(SpecPendingCommits(head)) = 1
    /\ SpecBaseSnapshot(head).meta.snapshot.serverStateID = "s1"

\* ------------------------------------------------------------------ C5
\* C5: from a head with one pending local commit (mutationID 1), with ss a
\* snapshot of lastMutationID 0 that BeginSync pulled on that head,
\* MaybeEndSync(ss) returns exactly one ReplayMutation (id 1 with the name,
\* args and hash of the pending commit) and leaves the head; and for h2 the
\* commit of the replay transaction on ss, MaybeEndSync(h2) returns [] and
\* sets the head to h2.
C5_ReplayThenFinalize ==
    \A ss \in store :
        ( /\ Len(SpecPendingCommits(head)) = 1
          /\ SpecMutationID(head) = 1
          /\ ~SpecIsLocal(ss)
          /\ ss.meta.snapshot.lastMutationID = 0
          /\ \E info \in PushInfos, resp \in PullResponses :
                 BeginSyncResult(head, info, resp).syncHead = <<ss>> )
        => ( /\ MaybeEndSyncResult(<<ss>>, head)
                  = [err |-> "",
                     replay |-> <<[id |-> 1,
                                   name |-> head.meta.local.name,
                                   args |-> head.meta.local.args,
                                   original |-> head]>>,
                     newHead |-> <<>>]
             /\ \A h2 \in store :
                    ( /\ HasBasis(h2)
                      /\ Basis(h2) = ss
                      /\ h2.meta.local.original = <<head>> )
                    => MaybeEndSyncResult(<<h2>>, head)
                         = [err |-> "", replay |-> <<>>, newHead |-> <<h2>>] )

\* ------------------------------------------------------------------ C6
\* C6: MaybeEndSync aborts with "found a newer snapshot on master" exactly
\* when the base snapshot of the master head differs from the parent of the
\* sync head's base snapshot.
C6_NewerSnapshotExactly ==
    \A syncHead \in Hashes :
        ( /\ ReadCommitOK(syncHead)
          /\ HasBasis(SpecBaseSnapshot(syncHead[1])) )
        => ( MaybeEndSyncResult(syncHead, head).err
                 = "found a newer snapshot on master"
             <=> SpecBaseSnapshot(head)
                 # Basis(SpecBaseSnapshot(syncHead[1])) )

\* ------------------------------------------------------------------ C7
\* The pending commits of c whose mutationID is greater than that of the
\* sync head, earliest first.
SpecToReplay(c, syncHeadCommit) ==
    SelectSeq(SpecPendingCommits(c),
              LAMBDA x : SpecMutationID(x) > SpecMutationID(syncHeadCommit))

\* C7: when fork detection passes, the replay list MaybeEndSync returns is
\* exactly the pending commits of the master head whose mutationID is
\* greater than the sync head's, in ascending mutationID order, each with
\* the id, name, args and hash of the commit.
C7_ReplayList ==
    \A syncHead \in Hashes :
        LET r == MaybeEndSyncResult(syncHead, head)
            toReplay == SpecToReplay(head, syncHead[1])
        IN  r.err = "" =>
                /\ r.replay = [i \in 1 .. Len(toReplay) |->
                                  [id |-> toReplay[i].meta.local.mutationID,
                                   name |-> toReplay[i].meta.local.name,
                                   args |-> toReplay[i].meta.local.args,
                                   original |-> toReplay[i]]]
                /\ \A i, j \in 1 .. Len(r.replay) :
                       i < j => r.replay[i].id < r.replay[j].id

\* ------------------------------------------------------------------ C8
\* C8: MaybeEndSync changes the master head only when it returns an empty
\* replay list without error, and the head is then the sync head it was
\* given; when it returns an error or a replay list that is not empty, the
\* head is what it was before the call.
C8_EndSyncFrame ==
    [][last'.op = "maybeEndSync" =>
          \A syncHead \in Hashes :
              MaybeEndSync(syncHead) =>
                  IF /\ MaybeEndSyncResult(syncHead, head).err = ""
                     /\ MaybeEndSyncResult(syncHead, head).replay = <<>>
                  THEN head' = syncHead[1] /\ dsHead' = syncHead[1]
                  ELSE head' = head /\ dsHead' = dsHead]_vars

\* MaybeEndSync has just returned without error with the head at a snapshot
\* that a pull wrote: a sync with nothing to replay was finalized.
C8_Witness ==
    /\ last.op = "maybeEndSync"
    /\ last.ok
    /\ ~SpecIsLocal(head)
    /\ head # Genesis
    /\ head.meta.snapshot.serverStateID = "s1"

\* ------------------------------------------------------------------ C9
\* C9: when BeginSync has pushed, whatever the push returned, that outcome
\* is in SyncInfo.BatchPushInfo, the pull has run, BeginSync fails only if
\* the pull does, and it returns the sync head it returns when the push
\* succeeds.
C9_PushFailureNotFatal ==
    \A info \in PushInfos, resp \in PullResponses :
        LET r == BeginSyncResult(head, info, resp)
            ok == [httpStatusCode |-> 200, errorMessage |-> ""]
        IN  r.pushed # <<>> =>
                /\ r.bpi = <<info>>
                /\ r.pulled
                /\ r.err = Pull(baseSnapshot(head), resp).err
                /\ r.syncHead = BeginSyncResult(head, ok, resp).syncHead

\* BeginSync has just returned without error after a push that failed, and
\* the store holds a snapshot pulled on the base snapshot of the head.
C9_Witness ==
    /\ last.op = "beginSync"
    /\ last.ok
    /\ last.push = "failed"
    /\ \E c \in store :
           /\ ~SpecIsLocal(c)
           /\ HasBasis(c)
           /\ Basis(c) = baseSnapshot(head)

\* ----------------------------------------------------------------- C10
\* The pull of a BeginSync on head h fails: transport error, status other
\* than 200, invalid JSON, a lastMutationID lower than the base snapshot's,
\* a patch that does not apply to the base snapshot's map, or a checksum
\* that is not that of the patched map.
SpecPullFails(h, resp) ==
    LET base == SpecBaseSnapshot(h)
        patched == ApplyPatch(base.value.data, resp.patch)
    IN  \/ resp.kind # "ok"
        \/ resp.lastMutationID < base.meta.snapshot.lastMutationID
        \/ patched = <<>>
        \/ Checksum(patched[1]) # resp.checksum

\* C10: if the pull fails, BeginSync returns an error and a zero sync head,
\* no commit is written to the store and the master head is unchanged.
C10_PullFailure ==
    [][last'.op = "beginSync" =>
          \A info \in PusherReturns(head), resp \in PullResponses :
              (BeginSync(info, resp) /\ SpecPullFails(head, resp)) =>
                  /\ BeginSyncResult(head, info, resp).err # ""
                  /\ BeginSyncResult(head, info, resp).syncHead = <<>>
                  /\ store' = store
                  /\ head' = head]_vars

\* ----------------------------------------------------------------- C11
\* C11: BeginSync never updates the master head: whether it returns a sync
\* head, a zero sync head or an error, the head in memory and the head of
\* the persisted dataset (what Reload reads) are what they were before.
C11_BeginSyncLeavesHead ==
    [][last'.op = "beginSync" => (head' = head /\ dsHead' = dsHead)]_vars

\* BeginSync has just returned a sync head pulled on the base snapshot of a
\* head that has a pending commit, and the head is still that commit.
C11_Witness ==
    /\ last.op = "beginSync"
    /\ last.ok
    /\ SpecIsLocal(head)
    /\ dsHead = head
    /\ \E c \in store :
           /\ ~SpecIsLocal(c)
           /\ HasBasis(c)
           /\ Basis(c) = SpecBaseSnapshot(head)
           /\ c \notin Chain(head)

\* ----------------------------------------------------------------- C12
\* C12: if the pull response has status 200 and a stateID equal to the
\* serverStateID of the base snapshot of the head, BeginSync returns a zero
\* sync head and no error and writes no snapshot, whatever the patch and
\* the checksum of the response (the stateID check comes first).
C12_SameStateIDIsNoOp ==
    \A info \in PusherReturns(head), resp \in PullResponses :
        ( /\ resp.kind = "ok"
          /\ resp.stateID = SpecBaseSnapshot(head).meta.snapshot.serverStateID )
        => ( /\ BeginSyncResult(head, info, resp).err = ""
             /\ BeginSyncResult(head, info, resp).syncHead = <<>>
             /\ BeginSyncResult(head, info, resp).written = {} )

\* ----------------------------------------------------------------- C13
\* The pull of a BeginSync on head h returns new data: it does not fail and
\* its stateID is not the serverStateID of the base snapshot of h.
SpecNewData(h, resp) ==
    /\ ~SpecPullFails(h, resp)
    /\ resp.stateID # SpecBaseSnapshot(h).meta.snapshot.serverStateID

\* The snapshot commit the specification has BeginSync write on head h.
SpecSyncSnapshot(h, resp) ==
    LET base == SpecBaseSnapshot(h)
        data == ApplyPatch(base.value.data, resp.patch)[1]
    IN  [parents |-> <<base>>,
         meta    |-> [local |-> ZeroLocal,
                      snapshot |-> [lastMutationID |-> resp.lastMutationID,
                                    serverStateID |-> resp.stateID]],
         value   |-> [data |-> data, checksum |-> Checksum(data)]]

\* C13: when the pull returns new data, BeginSync writes a snapshot commit
\* whose single parent is the base snapshot of the head, whose
\* lastMutationID and serverStateID are those of the response and whose data
\* is the base snapshot's map with the patch applied; it returns the hash of
\* that commit, which is in the store when BeginSync returns.
C13_SnapshotWritten ==
    [][last'.op = "beginSync" =>
          \A info \in PusherReturns(head), resp \in PullResponses :
              (BeginSync(info, resp) /\ SpecNewData(head, resp)) =>
                  /\ BeginSyncResult(head, info, resp).err = ""
                  /\ BeginSyncResult(head, info, resp).syncHead
                       = <<SpecSyncSnapshot(head, resp)>>
                  /\ SpecSyncSnapshot(head, resp) \in store']_vars

\* ----------------------------------------------------------------- C14
\* C14: BeginSync pushes if and only if the head has pending commits; the
\* mutations pushed are exactly those of the pending commits (id, name,
\* args) in ascending mutationID order; and the push is made before the
\* pull, so its outcome is recorded whatever the pull does.
C14_PushesPending ==
    \A info \in PusherReturns(head), resp \in PullResponses :
        LET r == BeginSyncResult(head, info, resp)
            pending == SpecPendingCommits(head)
        IN  /\ r.pushed # <<>> <=> pending # <<>>
            /\ r.bpi # <<>> <=> pending # <<>>
            /\ r.pushed # <<>> =>
                  /\ Len(r.pushed[1]) = Len(pending)
                  /\ \A i \in 1 .. Len(pending) :
                         /\ r.pushed[1][i].mutationID = pending[i].meta.local.mutationID
                         /\ r.pushed[1][i].name = pending[i].meta.local.name
                         /\ r.pushed[1][i].args = pending[i].meta.local.args
                  /\ \A i, j \in 1 .. Len(r.pushed[1]) :
                         i < j => r.pushed[1][i].mutationID < r.pushed[1][j].mutationID

\* ----------------------------------------------------------------- C16
\* C16: for every commit c of the store, pending_commits(c) is exactly the
\* local commits on the parent chain from c back to the base snapshot of c
\* (c included, the snapshot excluded), oldest first with ascending
\* mutationIDs, and it is empty when c is a snapshot.
C16_PendingCommits ==
    \A c \in store :
        LET p == pendingCommits(c)
        IN  /\ p = SpecPendingCommits(c)
            /\ \A i, j \in 1 .. Len(p) :
                   i < j => SpecMutationID(p[i]) < SpecMutationID(p[j])
            /\ ~SpecIsLocal(c) => p = <<>>

\* ----------------------------------------------------------------- C19
\* C19: when a non-replay transaction that wrote commits without error, the
\* master head (in memory and in the persisted dataset) is, as the commit
\* takes effect, the commit that Commit wrote to the store and returned.
C19_HeadIsReturnedCommit ==
    [][last'.op = "commitTransaction" =>
          \A id \in DOMAIN txs, d \in Dates :
              ( /\ CommitTransaction(id, d)
                /\ ~IsReplay(txs[id])
                /\ txs[id].wrote
                /\ Commit(txs[id], d, dsHead).err = "" )
              => ( /\ Commit(txs[id], d, dsHead).ref # <<>>
                   /\ head' = Commit(txs[id], d, dsHead).ref[1]
                   /\ dsHead' = head'
                   /\ head' \in store' )]_vars

\* A commit has just succeeded and the head is a local commit, not a replay,
\* whose parent is another local commit (the second commit in a row).
C19_Witness ==
    /\ last.op = "commitTransaction"
    /\ last.ok
    /\ SpecIsLocal(head)
    /\ head.meta.local.original = <<>>
    /\ SpecIsLocal(Basis(head))

\* ----------------------------------------------------------------- C15
\* C15: BeginSync reads the master head once.  When its pull returns, the
\* mutations it pushed are those of the pending commits of the head H it
\* read on entry, the pull was made against the base snapshot of H (it
\* fails exactly when a pull on that snapshot fails) and the snapshot it
\* wrote has that base snapshot as parent, even if the master head is no
\* longer H.
C15_HeadReadOnce ==
    [][last'.op = "beginSync" =>
          \A resp \in DBPullResponses :
              BeginSyncPull(resp) =>
                  LET H == syncing[1].head
                      sh == syncing'[1].syncHead
                  IN  /\ syncing[1].pushed
                           = IF Len(pendingCommits(H)) > 0
                             THEN <<Mutations(pendingCommits(H))>>
                             ELSE <<>>
                      /\ last'.ok = (Pull(baseSnapshot(H), resp).err = "")
                      /\ sh # <<>> =>
                            /\ sh[1] \in store'
                            /\ HasBasis(sh[1])
                            /\ Basis(sh[1]) = baseSnapshot(H)]_vars

\* A BeginSync has just returned a sync head while the master head was no
\* longer the commit it read on entry, nor a commit with the same base
\* snapshot.
C15_Witness ==
    /\ last.op = "beginSync"
    /\ last.ok
    /\ syncing # <<>>
    /\ syncing[1].stage = "returned"
    /\ syncing[1].syncHead # <<>>
    /\ syncing[1].head # head
    /\ baseSnapshot(syncing[1].head) # baseSnapshot(head)
    /\ Basis(syncing[1].syncHead[1]) = baseSnapshot(syncing[1].head)

\* ----------------------------------------------------------------- C17
\* What a transaction reads at key k: <<v>>, or <<>> when there is no entry.
ReadOf(tx, k) == Transaction_Get(tx, k).value

\* What commit c has at key k.
DataOf(c, k) == IF k \in DOMAIN c.value.data THEN <<c.value.data[k]>> ELSE <<>>

\* The reads of an open transaction change only by its own put and del: a
\* put of v at k makes it read v at k, a del of k makes it read nothing at
\* k, other keys read as before, and no other step (a commit or a close of
\* another transaction, BeginSync, MaybeEndSync) changes what it reads.
OwnWritesOnly ==
    \A h \in DOMAIN dbTxs :
        (~dbTxs[h].closed /\ ~dbTxs'[h].closed) =>
            /\ dbTxs'[h].basis = dbTxs[h].basis
            /\ \A k \in Keys :
                   /\ \A v \in Vals :
                          CallPut(h, k, v) => ReadOf(dbTxs'[h], k) = <<v>>
                   /\ CallDel(h, k) => ReadOf(dbTxs'[h], k) = <<>>
                   /\ ReadOf(dbTxs'[h], k) # ReadOf(dbTxs[h], k) =>
                          \/ \E v \in Vals : CallPut(h, k, v)
                          \/ CallDel(h, k)

\* C17 as stated: a new transaction reads the map of the head that is
\* current when it is constructed, and from then on its reads change only
\* by its own writes.
C17_ReadsHeadAtConstruction ==
    [][/\ \A p \in DBTxParams, r \in DBRebase :
              CallNewTransaction(p[1], p[2], r[1], r[2]) =>
                  \A h \in (DOMAIN dbTxs') \ (DOMAIN dbTxs), k \in Keys :
                      ReadOf(dbTxs'[h], k) = DataOf(head, k)
       /\ OwnWritesOnly]_vars

\* C17 amended: a new transaction reads the map of its basis, which is the
\* head that is current when it is constructed or, for a transaction
\* constructed with a basis (a replay), that basis whatever the head is;
\* from then on its reads change only by its own writes.
C17_ReadsBasisAtConstruction ==
    [][/\ \A p \in DBTxParams, r \in DBRebase :
              CallNewTransaction(p[1], p[2], r[1], r[2]) =>
                  \A h \in (DOMAIN dbTxs') \ (DOMAIN dbTxs), k \in Keys :
                      /\ dbTxs'[h].basis = IF r[1] # <<>> THEN r[1][1] ELSE head
                      /\ ReadOf(dbTxs'[h], k) = DataOf(dbTxs'[h].basis, k)
       /\ OwnWritesOnly]_vars

\* A transaction constructed without a basis is open, the head is no longer
\* its basis, and the head's map has an entry that the transaction does not
\* read.
C17_Witness ==
    \E h \in DOMAIN dbTxs :
        /\ ~dbTxs[h].closed
        /\ ~IsReplay(dbTxs[h])
        /\ dbTxs[h].basis # head
        /\ \E k \in Keys : DataOf(head, k) # <<>> /\ ReadOf(dbTxs[h], k) = <<>>

\* ----------------------------------------------------------------- C18
\* C18: Commit and Close leave the transaction closed; on a closed
\* transaction Has, Get, Scan, Put, Del, Commit and Close return ErrClosed
\* and change neither the transaction nor the store nor the head; and a
\* closed transaction stays closed.
C18_ClosedIsFinal ==
    [][\A h \in DOMAIN dbTxs :
          /\ \A d \in DBDates : CallCommit(h, d) => dbTxs'[h].closed
          /\ CallClose(h) => dbTxs'[h].closed
          /\ dbTxs[h].closed =>
                LET tx == dbTxs[h]
                IN  /\ dbTxs'[h] = tx
                    /\ Transaction_Scan(tx).err = ErrClosed
                    /\ Transaction_Close(tx) = [err |-> ErrClosed, tx |-> tx]
                    /\ \A d \in DBDates :
                           Transaction_Commit(tx, d, dsHead)
                             = [err |-> ErrClosed, ref |-> <<>>, written |-> {},
                                newHead |-> <<>>, tx |-> tx]
                    /\ \A k \in Keys :
                           /\ Transaction_Has(tx, k).err = ErrClosed
                           /\ Transaction_Get(tx, k).err = ErrClosed
                           /\ Transaction_Del(tx, k).err = ErrClosed
                           /\ Transaction_Del(tx, k).tx = tx
                           /\ \A v \in Vals :
                                  Transaction_Put(tx, k, v)
                                    = [err |-> ErrClosed, tx |-> tx]
                    /\ ( \/ \E k \in Keys, v \in Vals : CallPut(h, k, v)
                         \/ \E k \in Keys : CallDel(h, k)
                         \/ \E k \in Keys : CallGet(h, k)
                         \/ \E k \in Keys : CallHas(h, k)
                         \/ CallScan(h)
                         \/ CallClose(h)
                         \/ \E d \in DBDates : CallCommit(h, d) )
                       => ( /\ ~last'.ok
                            /\ store' = store
                            /\ head' = head
                            /\ dsHead' = dsHead
                            /\ dbTxs' = dbTxs )]_vars

\* A call on a closed transaction has just returned ErrClosed: the only
\* transaction there is is closed, although it wrote, and the head is still
\* the genesis commit.
C18_Witness ==
    /\ last.op = "none"
    /\ ~last.ok
    /\ DOMAIN dbTxs = {1}
    /\ dbTxs[1].closed
    /\ dbTxs[1].wrote
    /\ head = Genesis

\* ----------------------------------------------------------------- C20
\* C20: Commit on an open transaction in which no write occurred writes no
\* commit, leaves the master head unchanged and returns a zero hash and no
\* error, even if the head is no longer the basis of the transaction; the
\* transaction is closed afterwards.
C20_CommitWithoutWriteIsNoOp ==
    [][last'.op = "commit" =>
          \A h \in DOMAIN dbTxs, d \in DBDates :
              ( /\ CallCommit(h, d)
                /\ ~dbTxs[h].closed
                /\ ~dbTxs[h].wrote )
              => ( /\ Transaction_Commit(dbTxs[h], d, dsHead).err = ""
                   /\ Transaction_Commit(dbTxs[h], d, dsHead).ref = <<>>
                   /\ store' = store
                   /\ head' = head
                   /\ dsHead' = dsHead
                   /\ dbTxs'[h].closed )]_vars

\* The only transaction there is has just been committed without error: it
\* is closed, it did not write, it was constructed without a basis and the
\* head is no longer its basis.
C20_Witness ==
    /\ last.op = "commit"
    /\ last.ok
    /\ DOMAIN dbTxs = {1}
    /\ dbTxs[1].closed
    /\ ~dbTxs[1].wrote
    /\ ~IsReplay(dbTxs[1])
    /\ dbTxs[1].basis # head

SpecReplayValid(o, name, args, b) ==
    /\ SpecIsLocal(o)
    /\ name = o.meta.local.name
    /\ args = o.meta.local.args
    /\ SpecNextMutationID(b) = o.meta.local.mutationID

\* C22: the commit of a replay transaction that wrote succeeds only if the
\* original is a local commit, the name is the original's, the args are the
\* original's and the next mutation id of the basis is the original's
\* mutation id; on any mismatch the commit fails and writes nothing.
C22_ReplayValidation ==
    \A b \in store, o \in store, p \in DBTxParams, d \in DBDates,
       k \in Keys, v \in Vals :
        LET new == NewTransactionWithArgs(p[1], p[2], <<b>>, <<o>>)
            tx == Transaction_Put(new, k, v).tx
            r == Transaction_Commit(tx, d, dsHead)
        IN  IF SpecReplayValid(o, p[1], p[2], b)
            THEN TRUE
            ELSE r.err # "" /\ r.written = {}

\* ----------------------------------------------------------------- C23
\* C23: an openTransaction whose rebaseOpts have a non-empty basis returns a
\* transaction id only if the basis and the original name commits of the
\* store and pass replay validation, and the transaction is then a replay
\* transaction on that basis; otherwise it creates no transaction.
C23_OpenWithRebaseOpts ==
    [][transactionCounter' # transactionCounter =>
       \A p \in TxParams, r \in RebaseOpts :
          ( /\ OpenTransaction(p[1], p[2], r[1], r[2])
            /\ r[1] # <<>> )
          => IF transactionCounter \in DOMAIN txs'
             THEN /\ ReadCommitOK(r[1])
                  /\ ReadCommitOK(r[2])
                  /\ ArgsFromJSON(p[2]) # <<>>
                  /\ SpecReplayValid(r[2][1], p[1], ArgsFromJSON(p[2])[1], r[1][1])
                  /\ IsReplay(txs'[transactionCounter])
                  /\ txs'[transactionCounter].basis = r[1][1]
             ELSE txs' = txs]_vars

\* ----------------------------------------------------------------- C24
\* No openTransaction has succeeded so far: none was called, or one was and
\* it is the request that just failed.
NoOpenSucceeded ==
    \/ transactionCounter = 1
    \/ /\ transactionCounter = 2
       /\ last.op = "openTransaction"
       /\ ~last.ok

\* C24 as stated: the first successful openTransaction returns id 1, every
\* later one a strictly larger id, and no id is returned twice.
C24_FirstIdIsOne ==
    [][transactionCounter' # transactionCounter =>
       \A p \in TxParams, r \in RebaseOpts :
          ( /\ OpenTransaction(p[1], p[2], r[1], r[2])
            /\ newTransactionErr(p[1], p[2], r[1], r[2]) = "" )
          => ( /\ NoOpenSucceeded => transactionCounter = 1
               /\ \A id \in DOMAIN txs : id < transactionCounter
               /\ transactionCounter' > transactionCounter )]_vars

\* A step of openTransaction, told by what only it does: it advances the
\* counter, adds an id to the table, or is reported as a failed open.
C24_IsOpen ==
    \/ transactionCounter' # transactionCounter
    \/ ~(DOMAIN txs' \subseteq DOMAIN txs)
    \/ last'.op = "openTransaction"

\* C24, amended: every openTransaction that reaches newTransaction takes the
\* next id, from 1 on, whether it succeeds or fails; a successful one
\* returns the id it took, which is larger than every id returned before and
\* is never returned again.
C24_IdsIncrease ==
    [][C24_IsOpen =>
          ( /\ transactionCounter >= 1
            /\ transactionCounter' = transactionCounter + 1
            /\ \A id \in DOMAIN txs : id < transactionCounter
            /\ IF last'.op = "openTransaction"
               THEN ~last'.ok /\ txs' = txs
               ELSE /\ transactionCounter \notin DOMAIN txs
                    /\ DOMAIN txs' = (DOMAIN txs) \cup {transactionCounter}
                    /\ \A id \in DOMAIN txs : txs'[id] = txs[id] )]_vars

\* The first openTransaction has just failed: it took id 1, and the next
\* one gets id 2.
C24_Witness ==
    /\ last.op = "openTransaction"
    /\ ~last.ok
    /\ transactionCounter = 2
    /\ DOMAIN txs = {}

\* ----------------------------------------------------------------- C25
\* C25: once commitTransaction or closeTransaction was dispatched for a
\* known id, whatever the outcome, the id is not in the table, it never
\* comes back, and put, commitTransaction and closeTransaction with it fail
\* with "Invalid transaction ID".
C25_IdGoneAfterCommitOrClose ==
    [][ /\ last'.op \in {"none", "commitTransaction"} =>
           \A id \in DOMAIN txs, d \in Dates :
               (CommitTransaction(id, d) \/ CloseTransaction(id))
               => id \notin DOMAIN txs'
        /\ \A id \in 1 .. MaxTx :
               (id < transactionCounter /\ id \notin DOMAIN txs)
               => ( /\ id \notin DOMAIN txs'
                    /\ findTransaction(id) = "Invalid transaction ID"
                    /\ \A v \in Vals :
                           dispatchPutErr(id, v) = "Invalid transaction ID"
                    /\ \A d \in Dates :
                           dispatchCommitTransaction(id, d).err
                               = "Invalid transaction ID" ) ]_vars

\* The only id allocated so far is 1 and its commitTransaction has just
\* returned a ref: the table is empty.
C25_Witness ==
    /\ last.op = "commitTransaction"
    /\ last.ok
    /\ transactionCounter = 2
    /\ 1 \notin DOMAIN txs
    /\ head # Genesis

\* ----------------------------------------------------------------- C26
\* The commit that an open transaction which wrote and is no replay would
\* write at date d.
CommitOf(tx, d) ==
    makeLocal(tx.basis, d, NextMutationID(tx.basis), tx.name, tx.args, tx.me,
              Checksum(tx.me))

C27_Frame == UNCHANGED <<store, head, dsHead, txs>>

\* A put, commitTransaction or closeTransaction with a missing or unknown
\* id, and a put without a value, change nothing.
C27_RejectedByIdOrValue ==
    /\ last'.op = "none" =>
           \A id \in TxIDs, k \in Keys, v \in Vals \cup {NoValue} :
               (Put(id, k, v) /\ (v = NoValue \/ id \notin DOMAIN txs))
               => (C27_Frame /\ UNCHANGED transactionCounter /\ ~last'.ok)
    /\ last'.op = "commitTransaction" =>
           \A id \in TxIDs, d \in Dates :
               (CommitTransaction(id, d) /\ id \notin DOMAIN txs)
               => (C27_Frame /\ UNCHANGED transactionCounter /\ ~last'.ok)
    /\ last'.op = "none" =>
           \A id \in TxIDs :
               (CloseTransaction(id) /\ id \notin DOMAIN txs)
               => (C27_Frame /\ UNCHANGED transactionCounter /\ ~last'.ok)

\* C27 as stated: a request rejected as invalid input leaves the head, the
\* store, the transactions table and the next transaction id as they were.
C27_RejectedChangesNothing ==
    [][ /\ C27_RejectedByIdOrValue
        /\ last'.op = "openTransaction" =>
           \A p \in TxParams, r \in RebaseOpts :
               ( /\ OpenTransaction(p[1], p[2], r[1], r[2])
                 /\ newTransactionErr(p[1], p[2], r[1], r[2]) # "" )
               => (C27_Frame /\ UNCHANGED transactionCounter) ]_vars

\* C27, amended: a request rejected as invalid input leaves the head, the
\* store and the transactions table as they were; the next transaction id
\* is left alone by put, commitTransaction and closeTransaction, and is
\* advanced by one by a rejected openTransaction.
C27_RejectedKeepsAllButCounter ==
    [][ /\ C27_RejectedByIdOrValue
        /\ last'.op = "openTransaction" =>
           \A p \in TxParams, r \in RebaseOpts :
               ( /\ OpenTransaction(p[1], p[2], r[1], r[2])
                 /\ newTransactionErr(p[1], p[2], r[1], r[2]) # "" )
               => ( /\ C27_Frame
                    /\ transactionCounter' = transactionCounter + 1 ) ]_vars

\* An openTransaction has just been rejected while transaction 1 is open.
C27_Witness ==
    /\ last.op = "openTransaction"
    /\ ~last.ok
    /\ transactionCounter = 3
    /\ DOMAIN txs = {1}

\* ----------------------------------------------------------------- C28
\* C28: a MaybeEndSync that panics is answered by Dispatch with an error
\* message; the head, the store, the transactions and the next id are as
\* before and DB.mu is free, so that later requests are served.
C28_PanicIsAnError ==
    [][last'.op = "maybeEndSync" =>
          \A syncHead \in Hashes :
              ( /\ MaybeEndSync(syncHead)
                /\ MaybeEndSyncResult(syncHead, head).err = ErrPanic )
              => ( /\ ~last'.ok
                   /\ last'.panicked
                   /\ Dispatch(ErrPanic) # ""
                   /\ Dispatch(ErrPanic) # ErrPanic
                   /\ mu' = "free"
                   /\ UNCHANGED <<store, head, dsHead, txs, transactionCounter>> )]_vars

\* MaybeEndSync has just panicked while a transaction is open.
C28_Witness ==
    /\ last.op = "maybeEndSync"
    /\ last.panicked
    /\ DOMAIN txs # {}

\* ----------------------------------------------------------------- C29
\* The pull requests that passed the first CompareAndSwap of dispatchPull
\* and have not returned.
PullsInProgress == {r \in PullRequests : pulls[r].pc # "idle"}

\* C29: at most one legacy pull runs at a time: a pull request that arrives
\* while another is in progress fails and leaves the database and the other
\* pull alone.
C29_OnePullAtATime ==
    [][\A r \in PullRequests :
          (PullEnter(r) /\ PullsInProgress # {})
          => ( /\ last'.op = "pull"
               /\ ~last'.ok
               /\ Cardinality(PullsInProgress) <= 1
               /\ UNCHANGED <<store, head, dsHead, pulls>> )]_vars

\* ----------------------------------------------------------------- C30
\* C30: while BeginSync waits for the pusher or the puller DB.mu is free:
\* NewTransaction, Commit and MaybeEndSync are not kept waiting.
C30_LockFreeWhileSyncing ==
    (syncing # <<>> /\ syncing[1].stage = "pushed") => mu = "free"

\* A transaction has just been committed and the head set while BeginSync
\* waits for the puller.
C30_Witness ==
    /\ syncing # <<>>
    /\ syncing[1].stage = "pushed"
    /\ last.op = "commit"
    /\ last.ok
    /\ head # syncing[1].head

\* ----------------------------------------------------------------- C32
\* C32: in every state the base snapshot of the master head exists and is
\* the nearest commit on the parent chain of the head, the head included,
\* whose meta is Snapshot.
C32_BaseSnapshotOfHead ==
    /\ \E c \in Chain(head) : ~SpecIsLocal(c)
    /\ baseSnapshot(head) \in Chain(head)
    /\ ~SpecIsLocal(baseSnapshot(head))
    /\ baseSnapshot(head) = SpecBaseSnapshot(head)

\* ----------------------------------------------------------------- C33
\* The elements of a sequence.
Range(seq) == {seq[i] : i \in 1 .. Len(seq)}

\* C33: the commit that a successful non-replay commit has just made the
\* head, whether or not its transaction had a name, is a local commit: it
\* is pending on the head, the next BeginSync pushes its mutation, and a
\* MaybeEndSync on a snapshot pulled on its base snapshot returns it for
\* replay unless the snapshot covers its mutationID.
C33_CommittedIsPending ==
    [][(last'.op = "commitTransaction" /\ head' # head) =>
          ( /\ SpecIsLocal(head')
            /\ head' \in Range(pendingCommits(head'))
            /\ \A info \in PushInfos, resp \in PullResponses :
                   LET r == BeginSyncResult(head', info, resp)
                   IN  /\ r.pushed # <<>>
                       /\ head'.meta.local \in Range(r.pushed[1])
            /\ \A ss \in store' :
                   ( /\ ~SpecIsLocal(ss)
                     /\ HasBasis(ss)
                     /\ Basis(ss) = SpecBaseSnapshot(head')
                     /\ ss.meta.snapshot.lastMutationID
                            < head'.meta.local.mutationID
                     /\ MaybeEndSyncResult(<<ss>>, head').err = "" )
                   => \E i \in 1 .. Len(MaybeEndSyncResult(<<ss>>, head').replay) :
                          MaybeEndSyncResult(<<ss>>, head').replay[i].original
                              = head' )]_vars

\* ----------------------------------------------------------------- C34
\* C34: when MaybeEndSync finalizes, every local commit that was pending on
\* the head it replaces and whose mutationID is greater than the
\* lastMutationID of the new base snapshot has a counterpart with its
\* mutationID, name and args among the pending commits of the new head.
C34_NoMutationLost ==
    [][(last'.op = "maybeEndSync" /\ head' # head) =>
          \A c \in Range(SpecPendingCommits(head)) :
              SpecMutationID(c)
                  > SpecBaseSnapshot(head').meta.snapshot.lastMutationID
              => \E n \in Range(SpecPendingCommits(head')) :
                     /\ n.meta.local.mutationID = c.meta.local.mutationID
                     /\ n.meta.local.name = c.meta.local.name
                     /\ n.meta.local.args = c.meta.local.args]_vars

\* ----------------------------------------------------------------- C40
\* C40: whenever the master head changes, the lastMutationID of its base
\* snapshot does not decrease.
C40_LastMutationIDMonotonic ==
    [][SpecBaseSnapshot(head').meta.snapshot.lastMutationID
           >= SpecBaseSnapshot(head).meta.snapshot.lastMutationID]_vars

\* ---------------------------------------------------------------- C37
\* The maps a transaction can hold.
Maps == UNION {[ks -> Vals] : ks \in SUBSET Keys}

\* A commit of the write transaction tx against the master head cur,
\* whatever tx has written, fails with CommitError, is answered with
\* retryCommit and leaves the head.
CommitIsRejected(tx, cur) ==
    \A d \in Dates, m \in Maps :
        LET r == CommitWrite([tx EXCEPT !.me = m], d, cur)
        IN  /\ r.err = "CommitError"
            /\ r.newHead = <<>>
            /\ commitTransactionResponse(r).retryCommit

\* C37: a non-replay write transaction that is open when MaybeEndSync
\* finalizes a sync fails with CommitError (retryCommit) when it is committed
\* afterwards, at once or after any further requests: its commit never
\* replaces the finalized head. Stated on the steps that move the master
\* head: a finalization makes every open transaction's commit rejected, and
\* a rejected commit stays rejected.
C37_CommitAfterFinalizationFails ==
    [][dsHead' # dsHead =>
          \A id \in (DOMAIN txs) \cap (DOMAIN txs') :
              ~IsReplay(txs[id]) =>
                  /\ last'.op = "maybeEndSync"
                         => CommitIsRejected(txs'[id], dsHead')
                  /\ CommitIsRejected(txs[id], dsHead)
                         => CommitIsRejected(txs'[id], dsHead')]_vars

\* A transaction opened on genesis was committed after a sync finalized the
\* snapshot "s1" on genesis: the commit failed, its commit is in the store
\* and the head is the snapshot.
C37_Witness ==
    /\ last.op = "commitTransaction" /\ ~last.ok
    /\ head # Genesis /\ ~SpecIsLocal(head) /\ Basis(head) = Genesis
    /\ head.meta.snapshot.lastMutationID = 0
    /\ Cardinality(store) = 3
    /\ \E c \in store : SpecIsLocal(c) /\ Basis(c) = Genesis

\* ---------------------------------------------------------------- C38
\* C38: whenever DB.mu is free, the in-memory head is the head of the master
\* dataset, which is the head Reload reads, so a Reload leaves the head as it
\* is.
C38_HeadIsDatasetHead ==
    mu = "free" => (head = dsHead /\ initLocked = head)

\* Reload returned after a sync was finalized and a transaction committed on
\* the finalized snapshot.
C38_Witness ==
    /\ last.op = "reload"
    /\ SpecIsLocal(head)
    /\ SpecBaseSnapshot(head) # Genesis

\* ---------------------------------------------------------------- C35
\* C35: a put that returns success has written to a transaction that is not
\* closed, so that its write is in the map a later or concurrent commit
\* writes; a put whose write would come after the transaction was closed by
\* Commit or Close returns ErrClosed.
C35_AcknowledgedPutIsCommitted ==
    [][\A t \in Threads :
          (threads[t].pc = "Put.locked" /\ threads'[t].pc = "idle" /\ last'.ok)
              => ~dbTxs[threads[t].id].closed]_vars

\* ---------------------------------------------------------------- C39
\* The nesting order of the locks: the table's, a transaction's, DB.mu.
Rank(l) ==
    CASE l[1] = "transactionMutex" -> 1
      [] l[1] = "mutex" -> 2
      [] OTHER -> 3

\* Thread u holds a lock that keeps another thread from taking l.
Conflicts(u, l) ==
    \E h \in threads[u].held :
        h[1] = l[1] /\ h[2] = l[2] /\ (l[3] = "w" \/ h[3] = "w")

\* The request of thread t waits for a lock that is not there.
Blocked(t) == Wants(t) # <<>> /\ ~Available(Wants(t))

\* The threads of D wait for locks that only threads of D, or threads that
\* are in no request, can give back: none of them ever goes on.
Stuck(D) ==
    /\ D # {}
    /\ \A t \in D :
          /\ Blocked(t)
          /\ \A u \in Threads :
                 Conflicts(u, Wants(t)) => (u \in D \/ threads[u].pc = "idle")

\* C39: no requests deadlock. A request that waits for a lock holds only
\* locks that come before it in the order table, transaction, DB.mu; a thread
\* that is in no request holds no lock, whether its last request returned a
\* result or an error or panicked; DB.mu is taken exactly when a request
\* holds it; and no set of requests waits for locks that only they can give
\* back.
C39_NoDeadlock ==
    /\ \A t \in Threads :
          /\ Wants(t) # <<>>
                 => \A h \in threads[t].held : Rank(h) < Rank(Wants(t))
          /\ threads[t].pc = "idle" => threads[t].held = {}
    /\ (mu = "free") <=> (\A t \in Threads : MuLock \notin threads[t].held)
    /\ \A D \in SUBSET Threads : ~Stuck(D)

\* A commit holds its transaction's lock and waits for DB.mu, which a
\* MaybeEndSync that is about to panic holds.
C39_Witness ==
    \E t \in Threads, u \in Threads :
        /\ threads[t].pc = "setHead"
        /\ TxW(threads[t].id) \in threads[t].held
        /\ Blocked(t)
        /\ threads[u].pc = "MaybeEndSync.locked"
        /\ MaybeEndSyncResult(threads[u].arg, head).err = ErrPanic

\* ---------------------------------------------------------------- C31
\* Thread t holds DB.mu and no other thread does.
HoldsMuAlone(t) ==
    /\ MuLock \in threads[t].held
    /\ \A u \in Threads \ {t} : MuLock \notin threads[u].held

\* C31: the heads that concurrent requests observe form a linearizable
\* history. The master dataset and db.head are changed only by a successful
\* commit or a sync finalization that holds DB.mu alone; the change starts
\* where the two agree and ends, with the return of the request, where they
\* agree again; and every read of the head, by DB.Head for getRoot,
\* openTransaction and BeginSync and by MaybeEndSync, is made holding DB.mu
\* alone where the two agree, and returns that head: no request observes a
\* change half made or a head older than the last change.
C31_LinearizableHead ==
    [][/\ (head' # head \/ dsHead' # dsHead) =>
              \E t \in Threads :
                  /\ HoldsMuAlone(t)
                  /\ threads[t].op \in {"commitTransaction", "maybeEndSync"}
                  /\ \A u \in Threads \ {t} : threads'[u] = threads[u]
                  /\ dsHead' # dsHead => head = dsHead
                  /\ head' # head =>
                         /\ head' = dsHead'
                         /\ threads'[t].pc = "idle"
                         /\ mu' = "free"
                         /\ last'.op = threads[t].op /\ last'.ok
       /\ \A t \in Threads :
              (threads[t].pc = "Head.locked" /\ threads'[t].pc # "Head.locked") =>
                  /\ HoldsMuAlone(t)
                  /\ head = dsHead
                  /\ threads[t].op = "beginSync" => threads'[t].read = <<head>>
                  /\ threads[t].op = "openTransaction"
                         => dbTxs'[threads[t].id].basis = head
       /\ \A t \in Threads :
              (threads[t].pc = "MaybeEndSync.locked"
                   /\ threads'[t].pc # "MaybeEndSync.locked") =>
                  /\ HoldsMuAlone(t)
                  /\ head = dsHead]_vars

\* A finalization has set the master dataset and not yet db.head, and a
\* commit waits for DB.mu to fast-forward the dataset.
C31_Witness ==
    \E t \in Threads, u \in Threads :
        /\ threads[t].pc = "db.head"
        /\ threads[t].op = "maybeEndSync"
        /\ head # dsHead
        /\ threads[u].pc = "setHead"
        /\ Blocked(u)

\* ---------------------------------------------------------------- C36
\* C36: the replay loop makes progress. Every commit of a replay transaction
\* that succeeds yields a new tip on the transaction's basis, with the
\* mutationID, name and args of the mutation replayed; and when that mutation
\* is the last one MaybeEndSync returned for the tip's basis, MaybeEndSync on
\* the tip returns no mutations and finalizes.
C36_ReplayMakesProgress ==
    [][\A id \in DOMAIN txs :
          ( /\ IsReplay(txs[id])
            /\ id \notin DOMAIN txs'
            /\ last'.op = "commitTransaction" /\ last'.ok )
          => \E d \in Dates, c \in store' :
                 LET tx == txs[id]
                     o == tx.original[1]
                     before == MaybeEndSyncResult(<<tx.basis>>, head)
                 IN  /\ Commit(tx, d, dsHead).ref = <<c>>
                     /\ Basis(c) = tx.basis
                     /\ c.meta.local.mutationID = o.meta.local.mutationID
                     /\ c.meta.local.name = o.meta.local.name
                     /\ c.meta.local.args = o.meta.local.args
                     /\ ( /\ before.err = ""
                          /\ before.replay # <<>>
                          /\ before.replay[Len(before.replay)].original = o )
                        => ( /\ MaybeEndSyncResult(<<c>>, head).err = ""
                             /\ MaybeEndSyncResult(<<c>>, head).replay = <<>>
                             /\ MaybeEndSyncResult(<<c>>, head).newHead = <<c>> )']_vars

====
